---------------------------- MODULE Spec2Model ----------------------------
(***************************************************************************)
(* A model of the core of pydropsonde: the altitude repair                 *)
(* (Sonde.remove_non_mono_incr_alt), the altitude binning with gap fill    *)
(* and provenance flags (Sonde.interpolate_alt, add_N_values,              *)
(* add_m_values), the quality-control registry (helper/quality.py) and the *)
(* driver of the shipped pipeline (pipeline.py).                           *)
(*                                                                         *)
(* Each part has its own specification (SpecMono, SpecBin, SpecQC,         *)
(* SpecPipe); the variables of the other parts stay at their idle value.   *)
(***************************************************************************)
EXTENDS Integers, Sequences, FiniteSets, TLC

VARIABLES
    \* ---- remove_non_mono_incr_alt
    mono_pc,      \* position inside the function
    alt_in,       \* ds[alt_dim] as handed in, in time order
    alt,          \* the local array `alt` (ds[alt_dim] before the call)
    idx,          \* the local index (0-based, as in the code)
    curr_alt,     \* the running "current altitude"
    bottom_up,    \* the parameter bottom_up
    warned,       \* whether warnings.warn was called
    \* ---- interpolate_alt (method "bin"), add_N_values, add_m_values
    bin_pc,       \* position inside interpolate_alt
    var,          \* the variable followed through the loop over variables
    p_log,        \* the parameter p_log
    interpolate,  \* the parameter interpolate
    max_gap_fill, \* the parameter max_gap_fill
    ds_alt,       \* ds[alt_dim], one altitude per sample
    ds_var,       \* ds[var] as handed in, one value per sample
    ds_work,      \* ds[var] of the local ds (after the optional log)
    count_dict,   \* count_dict[var], one count per bin
    N_qc,         \* interp_ds[var + "_N_qc"]
    interp_ds,    \* interp_ds[var], one value per bin
    m_qc,         \* interp_ds[var + "_m_qc"]
    \* ---- QualityControl and the steps of Sonde that write its registry
    qc_vars,      \* self.qc_vars, a list of variable names
    qc_flags,     \* self.qc_flags, check name -> value
    qc_details,   \* self.qc_details, detail name -> number
    qc_by_var,    \* self.qc_by_var, variable -> its flags and details
    alt_dim,      \* self.alt_dim (of the sonde and of its qc)
    is_floater,   \* self.is_floater, "unset" until get_is_floater ran
    has_altitude, \* interim_l2_ds holds "altitude" (no "alt", "gpsalt")
    qc_ret,       \* what the last call returned or raised
    \* ---- run_pipeline over the shipped pipeline
    pipe_pc,      \* position: between steps, in a loop, raised
    step_index,   \* the step run_pipeline is at (1-based)
    previous_substep_output, \* output key -> value
    function_index, \* the function_name the outer loop is at (1-based)
    items,        \* the dict the inner loop iterates
    key_index,    \* the key the inner loop is at (1-based)
    my_dict,      \* the local my_dict
    new_dict,     \* the local new_dict
    cont,         \* sonde -> its attribute cont
    qc_ok,        \* sonde -> what check_qc gives on the filter flags
    handed_after_qc, \* the sondes a step after "qc" applied a method to
    gridded_sondes,  \* Gridded.sondes
    l3_ds,        \* the sondes of Gridded.l3_ds
    segments,     \* Gridded.segments: segment -> its member sondes
    circles,      \* Gridded.circles: segment -> the sondes of its circle
    applied,      \* the method calls of the iterate function at hand
    dropped,      \* the circles for which a method returned None
    (* the dataset of the sonde *)
    ds,           \* the dataset the checks of QualityControl run on
    (* Circle.fit2d at one altitude level *)
    fit_args,     \* the arguments x, y and u, one value per sonde
    fit_ret,      \* what fit2d returned: <<intercept, dux, duy>>
    (* Circle.circle_ds *)
    circle_ds,    \* variable name -> its values, one per altitude level
    (* Circle.get_xy_coords_for_circles *)
    circle,       \* the Circle object: its circle_ds (lon, lat, x, y), clon, clat, crad
    xy_ret,       \* what get_xy_coords_for_circles returned or raised
    (* Sonde.interpolate_alt on a grid given by its arguments *)
    grid_args,    \* the arguments of interpolate_alt and the samples of ds
    grid_ret,     \* interim_l3_ds after interpolate_alt: the bins' N, value, m
    (* Sonde.add_Nm_to_vars *)
    interim_l3_ds, \* the gridded profile: variable name -> values, and the attributes
    nm_ret,       \* what add_Nm_to_vars returned or raised
    (* run_substep on one substep *)
    substep_args, \* the arguments of run_substep and the output of `apply`
    substep_ret   \* what run_substep returned or raised

monoVars == <<mono_pc, alt_in, alt, idx, curr_alt, bottom_up, warned>>

binVars == <<bin_pc, var, p_log, interpolate, max_gap_fill, ds_alt, ds_var,
             ds_work, count_dict, N_qc, interp_ds, m_qc>>

qcVars == <<qc_vars, qc_flags, qc_details, qc_by_var, alt_dim, is_floater,
            has_altitude, qc_ret>>

pipeVars == <<pipe_pc, step_index, previous_substep_output, function_index,
              items, key_index, my_dict, new_dict, cont, qc_ok,
              handed_after_qc, gridded_sondes, l3_ds, segments, circles,
              applied, dropped>>

\* the dataset is an argument of the checks; no method writes it
dataVars == <<ds>>

fitVars == <<fit_args, fit_ret>>

circleVars == <<circle_ds>>

xyVars == <<circle, xy_ret>>

gridVars == <<grid_args, grid_ret>>

nmVars == <<interim_l3_ds, nm_ret>>

substepVars == <<substep_args, substep_ret>>

vars == <<monoVars, binVars, qcVars, pipeVars, dataVars, fitVars, circleVars, xyVars, gridVars, nmVars, substepVars>>

notMono == <<binVars, qcVars, pipeVars, dataVars, fitVars, circleVars, xyVars, gridVars, nmVars, substepVars>>

notBin == <<monoVars, qcVars, pipeVars, dataVars, fitVars, circleVars, xyVars, gridVars, nmVars, substepVars>>

notQC == <<monoVars, binVars, pipeVars, dataVars, fitVars, circleVars, xyVars, gridVars, nmVars, substepVars>>

notPipe == <<monoVars, binVars, qcVars, dataVars, fitVars, circleVars, xyVars, gridVars, nmVars, substepVars>>

notFit == <<monoVars, binVars, qcVars, pipeVars, dataVars, circleVars, xyVars, gridVars, nmVars, substepVars>>

notCircle == <<monoVars, binVars, qcVars, pipeVars, dataVars, fitVars, xyVars, gridVars, nmVars, substepVars>>

notXy == <<monoVars, binVars, qcVars, pipeVars, dataVars, fitVars, circleVars, gridVars, nmVars, substepVars>>

notGrid == <<monoVars, binVars, qcVars, pipeVars, dataVars, fitVars, circleVars, xyVars, nmVars, substepVars>>

notNm == <<monoVars, binVars, qcVars, pipeVars, dataVars, fitVars, circleVars, xyVars, gridVars, substepVars>>

notSubstep == <<monoVars, binVars, qcVars, pipeVars, dataVars, fitVars, circleVars, xyVars, gridVars, nmVars>>

-----------------------------------------------------------------------------
(* Floats.  np.nan is a value outside every set of numbers used below;     *)
(* every comparison with it is False, as in IEEE arithmetic.               *)

NaN == -1000

IsNaN(x) == x = NaN

FLt(a, b) == ~IsNaN(a) /\ ~IsNaN(b) /\ a < b

FGt(a, b) == ~IsNaN(a) /\ ~IsNaN(b) /\ a > b

Reverse(s) == [i \in 1..Len(s) |-> s[Len(s) + 1 - i]]

\* dropna(dim="time"): the non-NaN elements, in order
RECURSIVE DropNa(_)
DropNa(s) ==
    IF s = <<>> THEN <<>>
    ELSE IF IsNaN(Head(s)) THEN DropNa(Tail(s))
    ELSE <<Head(s)>> \o DropNa(Tail(s))

\* .diff(dim="time"): s[j+1] - s[j]
Diff(s) == [j \in 1..(Len(s) - 1) |-> s[j + 1] - s[j]]

-----------------------------------------------------------------------------
(* Strings.  A Python str is the sequence of its characters, so that an    *)
(* f-string, `in`, startswith, split and replace are computed as Python    *)
(* computes them.                                                          *)

str_u == <<"u">>

str_v == <<"v">>

str_p == <<"p">>

str_rh == <<"r", "h">>

str_ta == <<"t", "a">>

str_alt == <<"a", "l", "t">>

str_gpsalt == <<"g", "p", "s", "a", "l", "t">>

str_time == <<"t", "i", "m", "e">>

str_altitude == <<"a", "l", "t", "i", "t", "u", "d", "e">>

str_all == <<"a", "l", "l">>

str_profile_fullness_suffix ==
    <<"_", "p", "r", "o", "f", "i", "l", "e",
      "_", "f", "u", "l", "l", "n", "e", "s", "s">>

str_profile_fullness_fraction_suffix ==
    <<"_", "p", "r", "o", "f", "i", "l", "e", "_", "f", "u", "l", "l",
      "n", "e", "s", "s", "_", "f", "r", "a", "c", "t", "i", "o", "n">>

str_near_surface_suffix ==
    <<"_", "n", "e", "a", "r", "_",
      "s", "u", "r", "f", "a", "c", "e">>

str_near_surface_count_suffix ==
    <<"_", "n", "e", "a", "r", "_", "s", "u", "r",
      "f", "a", "c", "e", "_", "c", "o", "u", "n", "t">>

str_values_suffix == <<"_", "v", "a", "l", "u", "e", "s">>

str_underscore == <<"_">>

str_p_low_physics ==
    <<"p", "_", "l", "o", "w", "_",
      "p", "h", "y", "s", "i", "c", "s">>

str_u_near_surface ==
    <<"u", "_", "n", "e", "a", "r", "_",
      "s", "u", "r", "f", "a", "c", "e">>

str_p_near_surface ==
    <<"p", "_", "n", "e", "a", "r", "_", "s", "u", "r", "f", "a", "c", "e">>

str_alt_near_gpsalt ==
    <<"a", "l", "t", "_", "n", "e", "a",
      "r", "_", "g", "p", "s", "a", "l", "t">>

str_alt_near_gpsalt_max_diff ==
    <<"a", "l", "t", "_", "n", "e", "a", "r", "_", "g", "p", "s",
      "a", "l", "t", "_", "m", "a", "x", "_", "d", "i", "f", "f">>

str_altitude_source ==
    <<"a", "l", "t", "i", "t", "u", "d",
      "e", "_", "s", "o", "u", "r", "c", "e">>

str_all_except == <<"a", "l", "l", "_", "e", "x", "c", "e", "p", "t", "_">>

Range(f) == {f[i] : i \in DOMAIN f}

\* sub in s
Contains(s, sub) ==
    \E i \in 0..(Len(s) - Len(sub)) : SubSeq(s, i + 1, i + Len(sub)) = sub

\* s.startswith(pre)
StartsWith(s, pre) == Len(pre) <= Len(s) /\ SubSeq(s, 1, Len(pre)) = pre

\* s.find(c) + 1 for a character c: the first position of c, 0 when absent
Find(s, c) ==
    IF \E i \in 1..Len(s) : s[i] = c
    THEN CHOOSE i \in 1..Len(s) : s[i] = c /\ \A j \in 1..(i - 1) : s[j] # c
    ELSE 0

\* s.split(c): the pieces of s between the occurrences of the character c
RECURSIVE Split(_, _)
Split(s, c) ==
    LET i == Find(s, c)
    IN IF i = 0 THEN <<s>>
       ELSE <<SubSeq(s, 1, i - 1)>> \o Split(SubSeq(s, i + 1, Len(s)), c)

\* s.replace(old, ""): s without the occurrences of old, from the left
RECURSIVE Remove(_, _)
Remove(s, old) ==
    IF s = <<>> THEN <<>>
    ELSE IF StartsWith(s, old) THEN Remove(SubSeq(s, Len(old) + 1, Len(s)), old)
    ELSE <<Head(s)>> \o Remove(Tail(s), old)

-----------------------------------------------------------------------------
(* The idle value of each part, taken while another part is checked.       *)

MonoIdle ==
    /\ mono_pc = "idle"
    /\ alt_in = <<>>
    /\ alt = <<>>
    /\ idx = 0
    /\ curr_alt = NaN
    /\ bottom_up = FALSE
    /\ warned = FALSE

BinIdle ==
    /\ bin_pc = "idle"
    /\ var = "u"
    /\ p_log = FALSE
    /\ interpolate = FALSE
    /\ max_gap_fill = 0
    /\ ds_alt = <<>>
    /\ ds_var = <<>>
    /\ ds_work = <<>>
    /\ count_dict = <<>>
    /\ N_qc = <<>>
    /\ interp_ds = <<>>
    /\ m_qc = <<>>

\* the value of qc_ret while no call has returned anything
NoRet == [op |-> "", args |-> <<>>, raised |-> "", val |-> ""]

\* a call that returned val, and a call that raised an exception
Returned(op, args, val) == [op |-> op, args |-> args, raised |-> "", val |-> val]

Raised(op, args, exception) ==
    [op |-> op, args |-> args, raised |-> exception, val |-> ""]

\* calls come one after the other: the caller has taken the result of the
\* last call
QcReady == qc_ret.op = ""

\* QualityControl.__init__
QcIdle ==
    /\ qc_vars = <<>>
    /\ qc_flags = <<>>
    /\ qc_details = <<>>
    /\ qc_by_var = <<>>
    /\ alt_dim = str_time
    /\ is_floater = "unset"
    /\ has_altitude = FALSE
    /\ qc_ret = NoRet

\* no dataset handed to a check
DataIdle == ds = <<>>

\* fit2d not called
FitIdle == fit_args = <<>> /\ fit_ret = <<>>

\* no circle dataset
CircleIdle == circle_ds = <<>>

XyIdle == circle = <<>> /\ xy_ret = <<>>

GridIdle == grid_args = <<>> /\ grid_ret = <<>>

NmIdle == interim_l3_ds = <<>> /\ nm_ret = <<>>

SubstepIdle == substep_args = <<>> /\ substep_ret = <<>>

\* run_pipeline before its first step
PipeIdle ==
    /\ pipe_pc = "step"
    /\ step_index = 1
    /\ previous_substep_output = <<>>
    /\ function_index = 0
    /\ items = <<>>
    /\ key_index = 0
    /\ my_dict = <<>>
    /\ new_dict = <<>>
    /\ cont = <<>>
    /\ qc_ok = <<>>
    /\ handed_after_qc = {}
    /\ gridded_sondes = <<>>
    /\ l3_ds = {}
    /\ segments = <<>>
    /\ circles = <<>>
    /\ applied = <<>>
    /\ dropped = {}

-----------------------------------------------------------------------------
(* Bounds of the altitude-repair inputs.                                   *)

MaxLen == 4

AltLevels == 3

AltValues == {10 * k : k \in 1..AltLevels}

AltSeqs == UNION {[1..n -> AltValues \cup {NaN}] : n \in 1..MaxLen}

InitMono ==
    /\ mono_pc = "start"
    /\ alt_in \in AltSeqs
    /\ alt = alt_in
    /\ idx = 0
    /\ curr_alt = NaN
    /\ bottom_up \in BOOLEAN
    /\ warned = FALSE
    /\ BinIdle
    /\ QcIdle
    /\ PipeIdle
    /\ FitIdle
    /\ CircleIdle
    /\ XyIdle
    /\ GridIdle
    /\ NmIdle
    /\ SubstepIdle
    /\ DataIdle

\* diff_array = ds[alt_dim].sortby("time").dropna(dim="time").diff(dim="time")
diff_array == Diff(DropNa(alt_in))

\* diff_array.sortby("time", ascending=False).where(diff_array > 0): the
\* positions (0-based, in descending time order) that keep a value
PositivePositions ==
    {p \in 0..(Len(diff_array) - 1) : Reverse(diff_array)[p + 1] > 0}

\* .argmin(dim="time"): the first position of the smallest value kept
ArgMin ==
    CHOOSE p \in PositivePositions :
        \A q \in PositivePositions :
            LET r == Reverse(diff_array) IN
            \/ r[p + 1] < r[q + 1]
            \/ (r[p + 1] = r[q + 1] /\ p <= q)

\* lines 1255-1256: the altitude is strictly decreasing, nothing is done
MonoSorted ==
    /\ mono_pc = "start"
    /\ \A j \in 1..Len(diff_array) : diff_array[j] < 0
    /\ mono_pc' = "done"
    /\ UNCHANGED <<alt_in, alt, idx, curr_alt, bottom_up, warned>>
    /\ UNCHANGED notMono

\* lines 1257-1270: warn; alt in descending time order; idx from argmin,
\* which raises ValueError("All-NaN slice encountered") when no difference
\* is positive
MonoBottomUpStart ==
    /\ mono_pc = "start"
    /\ ~(\A j \in 1..Len(diff_array) : diff_array[j] < 0)
    /\ bottom_up
    /\ warned' = TRUE
    /\ IF PositivePositions = {}
       THEN /\ mono_pc' = "raised"
            /\ alt' = Reverse(alt_in)
            /\ UNCHANGED <<idx, curr_alt>>
       ELSE /\ mono_pc' = "bottom_up"
            /\ alt' = Reverse(alt_in)
            /\ curr_alt' = Reverse(alt_in)[ArgMin + 1]
            /\ idx' = ArgMin + 1
    /\ UNCHANGED <<alt_in, bottom_up>>
    /\ UNCHANGED notMono

\* lines 1271-1276: one turn of the while loop
MonoBottomUpStep ==
    /\ mono_pc = "bottom_up"
    /\ idx < Len(alt)
    /\ IF FLt(alt[idx + 1], curr_alt)
       THEN /\ alt' = [alt EXCEPT ![idx + 1] = NaN]
            /\ UNCHANGED curr_alt
       ELSE IF ~IsNaN(alt[idx + 1])
       THEN /\ curr_alt' = alt[idx + 1]
            /\ UNCHANGED alt
       ELSE UNCHANGED <<alt, curr_alt>>
    /\ idx' = idx + 1
    /\ UNCHANGED <<mono_pc, alt_in, bottom_up, warned>>
    /\ UNCHANGED notMono

\* line 1277: ds.assign({alt_dim: alt[::-1]})
MonoBottomUpAssign ==
    /\ mono_pc = "bottom_up"
    /\ idx >= Len(alt)
    /\ alt' = Reverse(alt)
    /\ mono_pc' = "done"
    /\ UNCHANGED <<alt_in, idx, curr_alt, bottom_up, warned>>
    /\ UNCHANGED notMono

\* lines 1257-1260, 1279-1281: warn; curr_alt = alt.isel(time=0)
MonoTopDownStart ==
    /\ mono_pc = "start"
    /\ ~(\A j \in 1..Len(diff_array) : diff_array[j] < 0)
    /\ ~bottom_up
    /\ warned' = TRUE
    /\ curr_alt' = alt[1]
    /\ idx' = 0
    /\ mono_pc' = "top_down"
    /\ UNCHANGED <<alt_in, alt, bottom_up>>
    /\ UNCHANGED notMono

\* lines 1282-1286: one turn of the for loop
MonoTopDownStep ==
    /\ mono_pc = "top_down"
    /\ idx < Len(alt)
    /\ IF FGt(alt[idx + 1], curr_alt)
       THEN /\ alt' = [alt EXCEPT ![idx + 1] = NaN]
            /\ UNCHANGED curr_alt
       ELSE IF ~IsNaN(alt[idx + 1])
       THEN /\ curr_alt' = alt[idx + 1]
            /\ UNCHANGED alt
       ELSE UNCHANGED <<alt, curr_alt>>
    /\ idx' = idx + 1
    /\ UNCHANGED <<mono_pc, alt_in, bottom_up, warned>>
    /\ UNCHANGED notMono

\* line 1287: ds[alt_dim] = alt
MonoTopDownAssign ==
    /\ mono_pc = "top_down"
    /\ idx >= Len(alt)
    /\ mono_pc' = "done"
    /\ UNCHANGED <<alt_in, alt, idx, curr_alt, bottom_up, warned>>
    /\ UNCHANGED notMono

NextMono ==
    \/ MonoSorted
    \/ MonoBottomUpStart
    \/ MonoBottomUpStep
    \/ MonoBottomUpAssign
    \/ MonoTopDownStart
    \/ MonoTopDownStep
    \/ MonoTopDownAssign

SpecMono == InitMono /\ [][NextMono]_vars

-----------------------------------------------------------------------------
(* Properties of the altitude repair.                                      *)

NonIncreasing(s) ==
    \A i, j \in 1..Len(s) :
        (i < j /\ ~IsNaN(s[i]) /\ ~IsNaN(s[j])) => s[i] >= s[j]

AllNaN(s) == \A i \in 1..Len(s) : IsNaN(s[i])

\* C7: for either scan direction the function returns a sequence of the
\* same length, each element the input element or NaN, whose non-NaN values
\* are non-increasing in time; an all-NaN or already non-increasing input
\* is returned unchanged.
C7_RepairGivesNonIncreasing ==
    /\ (mono_pc = "done" =>
            /\ Len(alt) = Len(alt_in)
            /\ \A i \in 1..Len(alt) : alt[i] = alt_in[i] \/ IsNaN(alt[i])
            /\ NonIncreasing(alt))
    /\ ((AllNaN(alt_in) \/ NonIncreasing(alt_in)) =>
            /\ mono_pc # "raised"
            /\ (mono_pc = "done" => alt = alt_in))

\* C8: the function never raises, whatever the altitude sequence and the
\* scan direction.
C8_RepairNeverRaises == mono_pc # "raised"

-----------------------------------------------------------------------------
(* Exact arithmetic for the binned values.  A value is <<n, d, e>>: the    *)
(* rational n/d in lowest terms when e = 0, NaN when d = 0, and 2^(n/d)    *)
(* when e = 1 (the exponential of a mean of logarithms that is no whole    *)
(* number, which is no rational).                                          *)

QNaN == <<0, 0, 0>>

QIsNaN(q) == q[2] = 0

Abs(x) == IF x < 0 THEN -x ELSE x

RECURSIVE GCD(_, _)
GCD(a, b) == IF b = 0 THEN a ELSE GCD(b, a % b)

Norm(n, d) ==
    IF d = 0 THEN QNaN
    ELSE LET sn == IF d < 0 THEN -n ELSE n
             sd == Abs(d)
             g == GCD(Abs(sn), sd)
         IN <<sn \div g, sd \div g, 0>>

Q(x) == IF IsNaN(x) THEN QNaN ELSE <<x, 1, 0>>

QAdd(a, b) ==
    IF QIsNaN(a) \/ QIsNaN(b) THEN QNaN
    ELSE Norm(a[1] * b[2] + b[1] * a[2], a[2] * b[2])

QSub(a, b) ==
    IF QIsNaN(a) \/ QIsNaN(b) THEN QNaN
    ELSE Norm(a[1] * b[2] - b[1] * a[2], a[2] * b[2])

QMul(a, b) ==
    IF QIsNaN(a) \/ QIsNaN(b) THEN QNaN
    ELSE Norm(a[1] * b[1], a[2] * b[2])

\* a / k for a whole number k; 0/0 and x/0 are NaN here (a count of 0
\* divides a sum of 0)
QDivInt(a, k) == IF QIsNaN(a) THEN QNaN ELSE Norm(a[1], a[2] * k)

RECURSIVE Pow2(_)
Pow2(k) == IF k = 0 THEN 1 ELSE 2 * Pow2(k - 1)

\* np.log on the pressures of the model, which are powers of two: the
\* logarithm to base 2 (the base cancels in exp(mean(log p)))
Log(q) ==
    IF QIsNaN(q) THEN QNaN
    ELSE <<CHOOSE k \in 0..q[1] : Pow2(k) = q[1], 1, 0>>

\* np.exp, to the same base
Exp(q) ==
    IF QIsNaN(q) THEN QNaN
    ELSE IF q[2] = 1
         THEN (IF q[1] >= 0 THEN <<Pow2(q[1]), 1, 0>>
               ELSE <<1, Pow2(-q[1]), 0>>)
         ELSE <<q[1], q[2], 1>>

-----------------------------------------------------------------------------
(* interpolate_alt: the grid and the inputs.                               *)

interp_start == -5

interp_step == 10

\* the number of bins of the model's grid (14600 m / 10 m in the code)
NBins == 4

\* np.arange(interp_start, interp_stop, interp_step), 0-based
Edge(i) == interp_start + interp_step * i

\* twice the bin centre (the coordinate <alt_dim>_bin), 1-based bins
Centre2(i) == Edge(i - 1) + Edge(i)

MaxSamples == 2

\* altitudes below the grid, on every edge, inside the lowest bin and above
\* the grid
SampleAlts ==
    {Edge(0) - 5, Edge(0) + 5, Edge(NBins) + 5} \cup {Edge(i) : i \in 0..NBins}

\* wind components may be zero; pressures are positive
RawValues(v) == IF v = "p" THEN {NaN, 1, 4} ELSE {NaN, 0, 2}

Samples(v) == SampleAlts \X RawValues(v)

\* time order of a descending sounding (samples at one altitude in the
\* order of their values, which no step below depends on)
Follows(s, x) ==
    \/ s = <<>>
    \/ s[Len(s)][1] > x[1]
    \/ (s[Len(s)][1] = x[1] /\ s[Len(s)][2] >= x[2])

\* the soundings of n samples: one (altitude, value) per sample
RECURSIVE Soundings(_, _)
Soundings(v, n) ==
    IF n = 0 THEN {<<>>}
    ELSE {Append(sx[1], sx[2]) :
             sx \in {y \in Soundings(v, n - 1) \X Samples(v) :
                        Follows(y[1], y[2])}}

InitBin ==
    /\ bin_pc = "start"
    /\ var \in {"u", "p"}
    /\ p_log \in (IF var = "p" THEN BOOLEAN ELSE {TRUE})
    /\ interpolate \in BOOLEAN
    /\ max_gap_fill \in (IF interpolate
                         THEN {interp_step * k : k \in 1..3}
                         ELSE {5 * interp_step})
    /\ \E n \in 0..MaxSamples :
         \E s \in Soundings(var, n) :
            /\ ds_alt = [k \in 1..n |-> s[k][1]]
            /\ ds_var = [k \in 1..n |-> s[k][2]]
    /\ ds_work = <<>>
    /\ count_dict = <<>>
    /\ N_qc = <<>>
    /\ interp_ds = <<>>
    /\ m_qc = <<>>
    /\ MonoIdle
    /\ QcIdle
    /\ PipeIdle
    /\ FitIdle
    /\ CircleIdle
    /\ XyIdle
    /\ GridIdle
    /\ NmIdle
    /\ SubstepIdle
    /\ DataIdle

\* lines 1310-1311: if p_log, ds.p = np.log(ds.p)
BinLog ==
    /\ bin_pc = "start"
    /\ ds_work' = [k \in 1..Len(ds_var) |->
                      IF var = "p" /\ p_log THEN Log(Q(ds_var[k]))
                      ELSE Q(ds_var[k])]
    /\ bin_pc' = "logged"
    /\ UNCHANGED <<var, p_log, interpolate, max_gap_fill, ds_alt, ds_var,
                   count_dict, N_qc, interp_ds, m_qc>>
    /\ UNCHANGED notBin

\* ds[alt_dim].where(~np.isnan(ds[var])): the altitude of sample k, NaN
\* where the variable is NaN
AltWhere(k) == IF IsNaN(ds_var[k]) THEN NaN ELSE ds_alt[k]

\* a histogram whose every bin is right-open, the last one too
InBinAllHalfOpen(a, i) ==
    /\ ~IsNaN(a)
    /\ Edge(i - 1) <= a
    /\ a < Edge(i)

\* histogram(..., bins=interpolation_grid): bin i (1-based) holds the
\* values in [Edge(i-1), Edge(i)), the last bin its upper edge too; NaN is
\* in no bin
InBin(a, i) ==
    /\ ~IsNaN(a)
    /\ Edge(i - 1) <= a
    /\ (a < Edge(i) \/ (i = NBins /\ a = Edge(NBins)))

Members(i) == {k \in 1..Len(ds_alt) : InBin(AltWhere(k), i)}

RECURSIVE SumOver(_, _)
SumOver(S, f) ==
    IF S = {} THEN <<0, 1, 0>>
    ELSE LET k == CHOOSE x \in S : TRUE
         IN QAdd(f[k], SumOver(S \ {k}, f))

\* histogram without weights: the count of bin i
Histogram(i) == Cardinality(Members(i))

\* histogram with weights=ds[var]: the sum of the values of bin i
WeightedHistogram(i) == SumOver(Members(i), ds_work)

\* lines 1315-1354: count_dict[var], the bin means, add_N_values
BinHistogram ==
    /\ bin_pc = "logged"
    /\ count_dict' = [i \in 1..NBins |-> Histogram(i)]
    /\ interp_ds' = [i \in 1..NBins |->
                        QDivInt(WeightedHistogram(i), Histogram(i))]
    /\ N_qc' = [i \in 1..NBins |-> Histogram(i)]
    /\ bin_pc' = "binned"
    /\ UNCHANGED <<var, p_log, interpolate, max_gap_fill, ds_alt, ds_var,
                   ds_work, m_qc>>
    /\ UNCHANGED notBin

\* the nearest bin below / above bin i that holds a value, 0 when none
LeftValid(y, i) ==
    LET S == {j \in 1..(i - 1) : ~QIsNaN(y[j])}
    IN IF S = {} THEN 0 ELSE CHOOSE j \in S : \A k \in S : k <= j

RightValid(y, i) ==
    LET S == {j \in (i + 1)..Len(y) : ~QIsNaN(y[j])}
    IN IF S = {} THEN 0 ELSE CHOOSE j \in S : \A k \in S : j <= k

\* twice the length of a gap measured by its missing bins alone
GapLengthMissingBins2(l, r) == 2 * interp_step * (r - l - 1)

\* twice the length of the gap between the valid bins l and r: xarray
\* measures a gap as the difference of the coordinate (the bin centre) at
\* the first value after the gap and at the last value before it
GapLength2(l, r) == Centre2(r) - Centre2(l)

\* np.interp on the bin centres, between the valid bins l and r
Linear(y, l, r, i) ==
    QAdd(y[l], QMul(QSub(y[r], y[l]),
                    Norm(Centre2(i) - Centre2(l), Centre2(r) - Centre2(l))))

\* interpolate_na(dim, max_gap=max_gap_fill, use_coordinate=True) at bin i:
\* a value is kept; a NaN with a value on both sides is interpolated when
\* the gap is no longer than max_gap; a NaN before the first or after the
\* last value stays NaN
InterpolateNa(y, i) ==
    IF ~QIsNaN(y[i]) THEN y[i]
    ELSE LET l == LeftValid(y, i)
             r == RightValid(y, i)
         IN IF l = 0 \/ r = 0 THEN QNaN
            ELSE IF GapLength2(l, r) <= 2 * max_gap_fill
                 THEN Linear(y, l, r, i)
                 ELSE QNaN

\* lines 1356-1363: the gap fill
BinInterpolateNa ==
    /\ bin_pc = "binned"
    /\ interpolate
    /\ interp_ds' = [i \in 1..NBins |-> InterpolateNa(interp_ds, i)]
    /\ bin_pc' = "filled"
    /\ UNCHANGED <<var, p_log, interpolate, max_gap_fill, ds_alt, ds_var,
                   ds_work, count_dict, N_qc, m_qc>>
    /\ UNCHANGED notBin

\* lines 1437-1442: n_mask and int_mask replace NaN by 0 and are cast to
\* bool; m is 2 where N > 0, else 0, and 1 where m_mask
MValue(n, value) ==
    LET n_mask == n # 0
        int_mask == ~QIsNaN(value) /\ value[1] # 0
        m_mask == ~n_mask /\ int_mask
        m == IF n > 0 THEN 2 ELSE 0
    IN IF m_mask THEN 1 ELSE m

\* line 1364: add_m_values, lines 1421-1460
BinAddM ==
    /\ bin_pc = "filled"
    /\ m_qc' = [i \in 1..NBins |-> MValue(N_qc[i], interp_ds[i])]
    /\ bin_pc' = "flagged"
    /\ UNCHANGED <<var, p_log, interpolate, max_gap_fill, ds_alt, ds_var,
                   ds_work, count_dict, N_qc, interp_ds>>
    /\ UNCHANGED notBin

\* lines 1366-1367: without gap fill the bins are only renamed
BinRename ==
    /\ bin_pc = "binned"
    /\ ~interpolate
    /\ bin_pc' = "renamed"
    /\ UNCHANGED <<var, p_log, interpolate, max_gap_fill, ds_alt, ds_var,
                   ds_work, count_dict, N_qc, interp_ds, m_qc>>
    /\ UNCHANGED notBin

\* lines 1380-1385: if p_log, interp_ds.p = np.exp(interp_ds.p)
BinExp ==
    /\ bin_pc \in {"flagged", "renamed"}
    /\ interp_ds' = [i \in 1..NBins |->
                        IF var = "p" /\ p_log THEN Exp(interp_ds[i])
                        ELSE interp_ds[i]]
    /\ bin_pc' = "done"
    /\ UNCHANGED <<var, p_log, interpolate, max_gap_fill, ds_alt, ds_var,
                   ds_work, count_dict, N_qc, m_qc>>
    /\ UNCHANGED notBin

NextBin ==
    \/ BinLog
    \/ BinHistogram
    \/ BinInterpolateNa
    \/ BinAddM
    \/ BinRename
    \/ BinExp

SpecBin == InitBin /\ [][NextBin]_vars

-----------------------------------------------------------------------------
(* Properties of the binning.                                              *)

\* C1: after bin-averaging with gap fill, for every bin m = 2 exactly when
\* N > 0, m = 0 exactly when N = 0 and the post-fill value is NaN, and
\* m = 1 exactly when N = 0 and the post-fill value is not NaN, whatever
\* the post-fill value (NaN, zero or non-zero).
C1_MethodFlagLaw ==
    (interpolate /\ bin_pc \in {"flagged", "done"}) =>
        \A i \in 1..NBins :
            /\ (m_qc[i] = 2) <=> (N_qc[i] > 0)
            /\ (m_qc[i] = 0) <=> (N_qc[i] = 0 /\ QIsNaN(interp_ds[i]))
            /\ (m_qc[i] = 1) <=> (N_qc[i] = 0 /\ ~QIsNaN(interp_ds[i]))

\* the samples the claim puts into bin i: value not NaN, altitude in
\* [e_(i-1), e_i), the last bin closed above
ClaimedMembers(i) ==
    {k \in 1..Len(ds_alt) :
        /\ ds_var[k] # NaN
        /\ ds_alt[k] >= interp_start + (i - 1) * interp_step
        /\ \/ ds_alt[k] < interp_start + i * interp_step
           \/ (i = NBins /\ ds_alt[k] = interp_start + NBins * interp_step)}

RECURSIVE IntSum(_, _)
IntSum(S, f) ==
    IF S = {} THEN 0
    ELSE LET k == CHOOSE x \in S : TRUE IN f[k] + IntSum(S \ {k}, f)

\* the arithmetic mean of the raw values of the samples in S
ArithmeticMean(S) == Norm(IntSum(S, ds_var), Cardinality(S))

\* the geometric mean: 2 to the mean of the base-2 logarithms
GeometricMean(S) ==
    Exp(Norm(IntSum(S, [k \in 1..Len(ds_var) |->
                           IF ds_var[k] = NaN THEN 0 ELSE Log(Q(ds_var[k]))[1]]),
             Cardinality(S)))

InGrid(k) ==
    /\ ds_alt[k] >= interp_start
    /\ ds_alt[k] <= interp_start + NBins * interp_step

DataBelow(i) ==
    LET S == {j \in 1..(i - 1) : N_qc[j] > 0}
    IN IF S = {} THEN 0 ELSE CHOOSE j \in S : \A k \in S : k <= j

DataAbove(i) ==
    LET S == {j \in (i + 1)..NBins : N_qc[j] > 0}
    IN IF S = {} THEN 0 ELSE CHOOSE j \in S : \A k \in S : j <= k

\* the value on the straight line through the bins l and r at bin i (the
\* bin centres are equally spaced)
OnLine(l, r, i) ==
    QDivInt(QAdd(QMul(interp_ds[l], <<r - i, 1, 0>>),
                 QMul(interp_ds[r], <<i - l, 1, 0>>)), r - l)

\* C6 (as claimed): a run of NaN bins between two valid bins is filled by
\* linear interpolation when (number of missing bins) * step <= max_gap_fill;
\* longer runs and runs touching an end of the grid stay NaN.
C6_FillByMissingBins ==
    (bin_pc \in {"filled", "flagged"}) =>
        \A i \in 1..NBins :
            N_qc[i] = 0 =>
                LET l == DataBelow(i)
                    r == DataAbove(i)
                IN IF l # 0 /\ r # 0 /\ (r - l - 1) * interp_step <= max_gap_fill
                   THEN interp_ds[i] = OnLine(l, r, i)
                   ELSE QIsNaN(interp_ds[i])

\* C6 (amended): the length of a run is the distance between the centres of
\* the valid bins on its two sides, (number of missing bins + 1) * step; the
\* run is filled when that is at most max_gap_fill.
C6_FillByCentreDistance ==
    (bin_pc \in {"filled", "flagged"}) =>
        \A i \in 1..NBins :
            N_qc[i] = 0 =>
                LET l == DataBelow(i)
                    r == DataAbove(i)
                IN IF l # 0 /\ r # 0 /\ (r - l) * interp_step <= max_gap_fill
                   THEN interp_ds[i] = OnLine(l, r, i)
                   ELSE QIsNaN(interp_ds[i])

\* one missing bin between two different values was filled, and (in another
\* run of the model) two missing bins of the same max_gap_fill were not
C6_Witness ==
    /\ bin_pc = "filled"
    /\ max_gap_fill = 2 * interp_step
    /\ N_qc[1] > 0 /\ N_qc[2] = 0 /\ N_qc[3] > 0
    /\ interp_ds[1] # interp_ds[3]
    /\ ~QIsNaN(interp_ds[2])

-----------------------------------------------------------------------------
(* QualityControl (helper/quality.py) and the steps of Sonde that write    *)
(* its registry.  A dict is a function on its keys.  The values of the     *)
(* registry are Python values: True, False, and the strings that           *)
(* replace_alt_dim stores under "altitude_source".                         *)

PyTrue == "True"

PyFalse == "False"

\* None, as a request of check_qc and as a landing time
PyNone == [t |-> "None", v |-> <<>>]

\* bool(v): False is falsy, True and every non-empty string are truthy
Bool(v) == v # PyFalse

\* d[k] = v
Put(d, k, v) == [x \in DOMAIN d \cup {k} |-> IF x = k THEN v ELSE d[x]]

\* d.get(k, default)
Get(d, k, default) == IF k \in DOMAIN d THEN d[k] ELSE default

\* all(d.values()) and any(d.values())
AllValues(d) == \A k \in DOMAIN d : Bool(d[k])

AnyValue(d) == \E k \in DOMAIN d : Bool(d[k])

\* the number of monitored variables the model registers
MaxQcVars == 2

\* The dataset is a sequence of blocks in time order.  A block stands for
\* n consecutive time steps that carry the same values: the barometric
\* altitude alt, the GPS altitude gpsalt, the pressure p (pres in the
\* ASPEN file) and the wind component u; a value is a whole number or NaN.
Block(n, a, g, p, u) == [n |-> n, alt |-> a, gpsalt |-> g, p |-> p, u |-> u]

\* ds[variable] at the time steps of one block
Value(block, variable) ==
    CASE variable = str_u -> block.u
      [] variable = str_p -> block.p
      [] variable = str_alt -> block.alt
      [] variable = str_gpsalt -> block.gpsalt

RECURSIVE SeqSum(_)
SeqSum(s) == IF s = <<>> THEN 0 ELSE Head(s) + SeqSum(Tail(s))

\* len(ds[time_dimension])
TimeSize(d) == SeqSum([i \in 1..Len(d) |-> d[i].n])

\* the time steps of d one by one, each with its time (its position
\* behind the t0 steps before it)
RECURSIVE TimeSteps(_, _)
TimeSteps(d, t0) ==
    IF d = <<>> THEN <<>>
    ELSE [i \in 1..Head(d).n |->
             [time |-> t0 + i, alt |-> Head(d).alt,
              gpsalt |-> Head(d).gpsalt, p |-> Head(d).p, u |-> Head(d).u]]
         \o TimeSteps(Tail(d), t0 + Head(d).n)

\* np.sum(~np.isnan(ds[variable].values))
ValidCount(d, variable) ==
    SeqSum([i \in 1..Len(d) |->
               IF IsNaN(Value(d[i], variable)) THEN 0 ELSE d[i].n])

\* the datasets of the sondes whose registry the model follows: a full
\* profile, a short one whose altitudes disagree, and a sonde that floats
QcDatasets ==
    {<<Block(50, 500, 500, 1000, 5)>>,
     <<Block(4, 700, 500, 1000, NaN)>>,
     <<Block(50, 10, 10, 1000, 5)>>}

\* the lists handed to set_qc_variables
QcVariableLists == {<<str_u, str_p>>}

timestamp_frequency == 4

\* fullness_threshold = 0.8
fullness_threshold == <<4, 5, 0>>

count_threshold == 50

diff_threshold == 150

variable_dict ==
    (str_u :> 4) @@ (str_v :> 4) @@ (str_rh :> 2) @@ (str_ta :> 2)
        @@ (str_p :> 2)

\* a < b for two numbers <<n, d, 0>>; False when one of them is NaN
QLt(a, b) == ~QIsNaN(a) /\ ~QIsNaN(b) /\ a[1] * b[2] < b[1] * a[2]

InitQC ==
    /\ QcIdle
    /\ ds \in QcDatasets
    /\ MonoIdle
    /\ BinIdle
    /\ PipeIdle
    /\ FitIdle
    /\ CircleIdle
    /\ XyIdle
    /\ GridIdle
    /\ NmIdle
    /\ SubstepIdle

\* the empty per-variable entry dict(qc_flags={}, qc_details={}); the flags
\* are kept in their order (a sequence of <<key, value>>), which
\* get_byte_array reads
FreshByVar == [qc_flags |-> <<>>, qc_details |-> <<>>]

set_qc_variables ==
    /\ QcReady
    /\ \E qc_variables \in QcVariableLists :
           /\ Len(qc_vars) + Len(qc_variables) <= MaxQcVars
           /\ qc_vars' = qc_vars \o qc_variables
           /\ qc_by_var' = [variable \in Range(qc_vars') |-> FreshByVar]
           /\ qc_ret' = NoRet
           /\ UNCHANGED <<qc_flags, qc_details, alt_dim, is_floater,
                          has_altitude>>
           /\ UNCHANGED notQC

gpsalt_threshold == 25

consecutive_time_steps == 3

\* lines 48-52: the time steps below the threshold that have a pressure
\* (a NaN gpsalt is not below the threshold); they are in time order
surface_ds(d) ==
    LET Keep(step) == FLt(step.gpsalt, gpsalt_threshold) /\ ~IsNaN(step.p)
    IN SelectSeq(TimeSteps(d, 0), Keep)

\* lines 53-61: floater[i] compares the surface steps i and i + 1
floater(d) ==
    LET s == surface_ds(d)
    IN [i \in 1..(Len(s) - 1) |->
           /\ Abs(s[i + 1].gpsalt - s[i].gpsalt) < 1
           /\ Abs(s[i + 1].p - s[i].p) < 1]

\* a time, as a returned value
PyTime(t) == [t |-> "time", v |-> <<t>>]

\* lines 62-77: what get_is_floater returns.  time_index counts from 0, so
\* the window that starts at floater[k] has time_index = k - 1, and
\* surface_ds.time[time_index - 1] is the last step when time_index is 0
landing_time(d) ==
    LET s == surface_ds(d)
        f == floater(d)
        K == {k \in 1..(Len(f) - consecutive_time_steps + 1) :
                 \A j \in k..(k + consecutive_time_steps - 1) : f[j]}
    IN IF ~(\E i \in 1..Len(f) : f[i]) THEN PyNone
       ELSE IF K # {}
       THEN LET k == CHOOSE x \in K : \A y \in K : x <= y
            IN PyTime(s[IF k = 1 THEN Len(s) ELSE k - 1].time)
       ELSE PyTime(s[1].time)

get_is_floater ==
    /\ QcReady
    /\ is_floater' = (IF \E i \in 1..Len(floater(ds)) : floater(ds)[i]
                      THEN PyTrue ELSE PyFalse)
    /\ qc_ret' = Returned("get_is_floater", <<>>, landing_time(ds))
    /\ UNCHANGED <<qc_vars, qc_flags, qc_details, qc_by_var, alt_dim,
                   has_altitude>>
    /\ UNCHANGED notQC

\* lines 117-122
var_keys == DOMAIN variable_dict \cap Range(qc_vars)

\* lines 126-130: count / (time size / (timestamp_frequency /
\* sampling_frequency)); 0 / 0.0 of numpy numbers is NaN
fullness_fraction(d, variable) ==
    Norm(ValidCount(d, variable) * timestamp_frequency,
         TimeSize(d) * variable_dict[variable])

\* lines 131-134
FullnessFlag(fraction) ==
    IF QLt(fraction, fullness_threshold) THEN PyFalse ELSE PyTrue

profile_fullness ==
    /\ QcReady
    /\ LET F == {variable \o str_profile_fullness_suffix :
                    variable \in var_keys}
           D == {variable \o str_profile_fullness_fraction_suffix :
                    variable \in var_keys}
           VarOf(key, suffix) ==
               CHOOSE variable \in var_keys : key = variable \o suffix
       IN /\ qc_flags' =
                [key \in DOMAIN qc_flags \cup F |->
                    IF key \in F
                    THEN FullnessFlag(
                             fullness_fraction(
                                 ds, VarOf(key, str_profile_fullness_suffix)))
                    ELSE qc_flags[key]]
          /\ qc_details' =
                [key \in DOMAIN qc_details \cup D |->
                    IF key \in D
                    THEN fullness_fraction(
                             ds,
                             VarOf(key, str_profile_fullness_fraction_suffix))
                    ELSE qc_details[key]]
    /\ qc_ret' = NoRet
    /\ UNCHANGED <<qc_vars, qc_by_var, alt_dim, is_floater, has_altitude>>
    /\ UNCHANGED notQC

\* lines 188-192
NearSurfaceFlag(near_surface_count) ==
    IF near_surface_count < count_threshold THEN PyFalse ELSE PyTrue

\* the default alt_bounds=[0, 1000]
alt_bounds == <<0, 1000>>

\* line 185, with the bounds taken in: (ds[alt_dim] >= alt_bounds[0]) &
\* (ds[alt_dim] <= alt_bounds[1])
InBandInclusive(a) ==
    ~IsNaN(a) /\ a >= alt_bounds[1] /\ a <= alt_bounds[2]

\* line 185: (ds[alt_dim] > alt_bounds[0]) & (ds[alt_dim] < alt_bounds[1])
InBand(a) == FGt(a, alt_bounds[1]) /\ FLt(a, alt_bounds[2])

\* lines 184-187, with the default alt_dim="gpsalt": where() leaves the
\* values inside the band, count() counts those that are not NaN
near_surface_count(d, variable) ==
    SeqSum([i \in 1..Len(d) |->
               IF InBand(d[i].gpsalt) /\ ~IsNaN(Value(d[i], variable))
               THEN d[i].n ELSE 0])

\* lines 173-181: reading self.is_floater before get_is_floater set it
\* raises AttributeError, which `except KeyError` does not catch
near_surface_coverage ==
    /\ QcReady
    /\ IF is_floater = "unset"
       THEN /\ qc_ret' = Raised("near_surface_coverage", <<>>, "AttributeError")
            /\ UNCHANGED <<qc_vars, qc_flags, qc_details, qc_by_var, alt_dim,
                           is_floater, has_altitude>>
            /\ UNCHANGED notQC
       ELSE /\ LET V == Range(qc_vars)
                   F == {variable \o str_near_surface_suffix :
                            variable \in V}
                   D == {variable \o str_near_surface_count_suffix :
                            variable \in V}
                   VarOf(key, suffix) ==
                       CHOOSE variable \in V : key = variable \o suffix
               IN /\ qc_flags' =
                        [key \in DOMAIN qc_flags \cup F |->
                            IF key \in F
                            THEN NearSurfaceFlag(
                                     near_surface_count(
                                         ds,
                                         VarOf(key, str_near_surface_suffix)))
                            ELSE qc_flags[key]]
                  /\ qc_details' =
                        [key \in DOMAIN qc_details \cup D |->
                            IF key \in D
                            THEN Q(near_surface_count(
                                       ds,
                                       VarOf(key,
                                             str_near_surface_count_suffix)))
                            ELSE qc_details[key]]
            /\ qc_ret' = NoRet
            /\ UNCHANGED <<qc_vars, qc_by_var, alt_dim, is_floater,
                           has_altitude>>
            /\ UNCHANGED notQC

\* (dataset.alt - dataset.gpsalt).max(skipna=True): the largest of the
\* signed differences that are not NaN, NaN when there is none
MaxSkipNa(d) ==
    LET S == {d[i].alt - d[i].gpsalt :
                 i \in {j \in 1..Len(d) :
                           ~IsNaN(d[j].alt) /\ ~IsNaN(d[j].gpsalt)}}
    IN IF S = {} THEN NaN ELSE CHOOSE x \in S : \A y \in S : y <= x

\* np.abs of a float
FAbs(x) == IF IsNaN(x) THEN NaN ELSE Abs(x)

\* line 219
max_diff(d) == FAbs(MaxSkipNa(d))

alt_near_gpsalt ==
    /\ QcReady
    /\ IF ~Bool(Get(qc_flags, alt_dim \o str_values_suffix, PyTrue))
       THEN /\ qc_ret' = Returned("alt_near_gpsalt", <<>>, "0")
            /\ UNCHANGED <<qc_vars, qc_flags, qc_details, qc_by_var, alt_dim,
                           is_floater, has_altitude>>
            /\ UNCHANGED notQC
       ELSE /\ qc_flags' =
                  Put(qc_flags, str_alt_near_gpsalt,
                      IF FLt(max_diff(ds), diff_threshold) THEN PyTrue
                      ELSE PyFalse)
            /\ qc_details' =
                  Put(qc_details, str_alt_near_gpsalt_max_diff,
                      Q(max_diff(ds)))
            /\ qc_ret' = NoRet
            /\ UNCHANGED <<qc_vars, qc_by_var, alt_dim, is_floater,
                           has_altitude>>
            /\ UNCHANGED notQC

\* the check get_qc runs by default under the name "low_physics"; it
\* registers the flag p_low_physics that replace_alt_dim reads
low_physics ==
    /\ QcReady
    /\ \E flag \in {PyTrue, PyFalse} :
           /\ qc_flags' = Put(qc_flags, str_p_low_physics, flag)
           /\ qc_ret' = NoRet
           /\ UNCHANGED <<qc_vars, qc_details, qc_by_var, alt_dim, is_floater,
                          has_altitude>>
           /\ UNCHANGED notQC

replace_alt_var ==
    /\ QcReady
    /\ \E alt_var \in {str_alt, str_gpsalt, str_time} :
           IF alt_var \in {str_alt, str_gpsalt}
           THEN /\ qc_flags' = Put(qc_flags, alt_var \o str_values_suffix,
                                   PyFalse)
                /\ qc_ret' = NoRet
                /\ UNCHANGED <<qc_vars, qc_details, qc_by_var, alt_dim,
                               is_floater, has_altitude>>
                /\ UNCHANGED notQC
           ELSE /\ qc_ret' = Raised("replace_alt_var", <<alt_var>>, "ValueError")
                /\ UNCHANGED <<qc_vars, qc_flags, qc_details, qc_by_var,
                               alt_dim, is_floater, has_altitude>>
                /\ UNCHANGED notQC

set_alt_dim ==
    /\ QcReady
    /\ \E new_alt_dim \in {str_alt, str_gpsalt} :
           /\ alt_dim' = new_alt_dim
           /\ qc_ret' = NoRet
           /\ UNCHANGED <<qc_vars, qc_flags, qc_details, qc_by_var, is_floater,
                          has_altitude>>
           /\ UNCHANGED notQC

\* the str of the model's altitude names, as a registry value
StrValue(name) ==
    CASE name = str_alt -> "alt"
      [] name = str_gpsalt -> "gpsalt"
      [] name = str_time -> "time"
      [] name = str_altitude -> "altitude"

\* lines 1198-1200 and 1214-1216: the loop over rh, ta and p
NearSurfaceVars == {str_rh, str_ta, str_p}

NearSurfaceFailedFlags(flags) ==
    LET F == {variable \o str_near_surface_suffix :
                 variable \in NearSurfaceVars}
    IN [key \in DOMAIN flags \cup F |->
           IF key \in F THEN PyFalse ELSE flags[key]]

NearSurfaceFailedDetails(details) ==
    LET D == {variable \o str_near_surface_count_suffix :
                 variable \in NearSurfaceVars}
    IN [key \in DOMAIN details \cup D |->
           IF key \in D THEN QNaN ELSE details[key]]

\* ds[alt_dim] exists: interim_l2_ds holds time, alt and gpsalt until the
\* first replacement, and time and altitude after it
DsHasAltDim ==
    IF has_altitude THEN alt_dim \in {str_time, str_altitude}
    ELSE alt_dim \in {str_time, str_alt, str_gpsalt}

\* Sonde.replace_alt_dim; the input is np.all(np.isnan(ds["gpsalt"]))
replace_alt_dim ==
    /\ QcReady
    /\ \E gpsalt_all_nan \in BOOLEAN :
           LET Raise(exception, flags) ==
                   /\ qc_flags' = flags
                   /\ qc_ret' = Raised("replace_alt_dim", <<>>, exception)
                   /\ UNCHANGED <<qc_vars, qc_details, qc_by_var, alt_dim,
                                  is_floater, has_altitude>>
                   /\ UNCHANGED notQC
               Replace(flags, details) ==
                   /\ qc_flags' = flags
                   /\ qc_details' = details
                   /\ alt_dim' = str_altitude
                   /\ has_altitude' = TRUE
                   /\ qc_ret' = NoRet
                   /\ UNCHANGED <<qc_vars, qc_by_var, is_floater>>
                   /\ UNCHANGED notQC
               low == Bool(qc_flags[str_p_low_physics])
           IN  IF ~DsHasAltDim \/ str_p_low_physics \notin DOMAIN qc_flags
               THEN Raise("KeyError", qc_flags)
               ELSE IF ~low /\ has_altitude
               THEN Raise("KeyError", qc_flags)
               ELSE IF ~low /\ gpsalt_all_nan
               THEN /\ qc_ret' = Returned("replace_alt_dim", <<>>, "None")
                    /\ UNCHANGED <<qc_vars, qc_flags, qc_details, qc_by_var,
                                   alt_dim, is_floater, has_altitude>>
                    /\ UNCHANGED notQC
               ELSE IF alt_dim = str_alt
               THEN IF ~low
                    THEN Replace(Put(NearSurfaceFailedFlags(qc_flags),
                                     str_altitude_source, "gpsalt"),
                                 NearSurfaceFailedDetails(qc_details))
                    ELSE Replace(Put(qc_flags, str_altitude_source, "alt"),
                                 qc_details)
               ELSE IF alt_dim = str_gpsalt
               THEN LET flags == Put(qc_flags, str_altitude_source, "gpsalt")
                    IN IF str_u_near_surface \notin DOMAIN qc_flags
                       THEN Raise("KeyError", flags)
                       ELSE IF ~Bool(qc_flags[str_u_near_surface]) /\ low
                       THEN Replace(Put(flags, str_altitude_source, "alt"),
                                    qc_details)
                       ELSE IF ~low
                       THEN Replace(NearSurfaceFailedFlags(flags),
                                    NearSurfaceFailedDetails(qc_details))
                       ELSE Replace(flags, qc_details)
               ELSE LET flags == Put(qc_flags, str_altitude_source,
                                     StrValue(alt_dim))
                    IN IF has_altitude THEN Replace(flags, qc_details)
                       ELSE Raise("KeyError", flags)

\* lines 236-249: the names check_qc selects, as a set (the dict of line
\* 255 holds each name once), or the exception raised on the way
Selected(flags, used_flags) ==
    IF used_flags.t = "None" THEN [raised |-> "", names |-> {}]
    ELSE IF used_flags.t = "list"
    THEN [raised |-> "", names |-> Range(used_flags.v)]
    ELSE IF used_flags.v[1] = str_all
    THEN [raised |-> "", names |-> DOMAIN flags]
    ELSE LET parts == Split(used_flags.v[1], ",")
         IN IF Len(parts) = 1 /\ StartsWith(parts[1], str_all_except)
            THEN LET name == Remove(parts[1], str_all_except)
                 IN IF name \in DOMAIN flags
                    THEN [raised |-> "", names |-> DOMAIN flags \ {name}]
                    ELSE [raised |-> "KeyError", names |-> {}]
            ELSE IF StartsWith(parts[1], str_all_except)
            THEN [raised |-> "ValueError", names |-> {}]
            ELSE [raised |-> "", names |-> Range(parts)]

\* lines 256-261
AllOrAny(flags, names, check_ugly) ==
    IF check_ugly /\ (\A key \in names : Bool(flags[key])) THEN PyTrue
    ELSE IF ~check_ugly /\ (\E key \in names : Bool(flags[key])) THEN PyTrue
    ELSE PyFalse

\* check_qc without the test of lines 250-253: a name that is not in the
\* registry is passed over
CheckQcUnchecked(flags, used_flags, check_ugly) ==
    LET sel == Selected(flags, used_flags)
    IN [raised |-> "",
        val |-> AllOrAny(flags, sel.names \cap DOMAIN flags, check_ugly)]

\* QualityControl.check_qc as a function of the registry and its arguments
CheckQc(flags, used_flags, check_ugly) ==
    LET sel == Selected(flags, used_flags)
    IN IF sel.raised # "" THEN [raised |-> sel.raised, val |-> ""]
       ELSE IF ~(sel.names \subseteq DOMAIN flags)
       THEN [raised |-> "ValueError", val |-> ""]
       ELSE [raised |-> "",
             val |-> AllOrAny(flags, sel.names, check_ugly)]

PyStr(s) == [t |-> "str", v |-> <<s>>]

PyList(l) == [t |-> "list", v |-> l]

\* the requests handed to check_qc
Requests ==
    {PyNone, PyStr(str_all), PyStr(str_u_near_surface),
     PyStr(str_u_near_surface \o <<",">> \o str_p_low_physics),
     PyList(<<str_alt_near_gpsalt, str_altitude_source>>),
     PyStr(str_all_except \o str_p_low_physics),
     PyStr(str_all_except \o str_p),
     PyStr(str_all_except \o str_p_near_surface \o <<",">>
               \o str_u_near_surface),
     PyStr(str_u_near_surface \o <<",">> \o str_all_except
               \o str_p_near_surface),
     PyList(<<str_u_near_surface, str_all_except \o str_p_near_surface>>)}

check_qc ==
    /\ QcReady
    /\ \E used_flags \in Requests, check_ugly \in BOOLEAN :
           LET r == CheckQc(qc_flags, used_flags, check_ugly)
           IN /\ qc_ret' = [op |-> "check_qc",
                            args |-> <<used_flags, check_ugly>>,
                            raised |-> r.raised, val |-> r.val]
              /\ UNCHANGED <<qc_vars, qc_flags, qc_details, qc_by_var, alt_dim,
                             is_floater, has_altitude>>
              /\ UNCHANGED notQC

\* Sonde.remove_non_qc_sondes: self when check_qc returns True, else None
remove_non_qc_sondes ==
    /\ QcReady
    /\ \E used_flags \in {PyNone, PyStr(str_all)}, remove_ugly \in BOOLEAN :
           LET r == CheckQc(qc_flags, used_flags, remove_ugly)
           IN /\ qc_ret' = [op |-> "remove_non_qc_sondes",
                            args |-> <<used_flags, remove_ugly>>,
                            raised |-> r.raised,
                            val |-> IF r.raised # "" THEN ""
                                    ELSE IF r.val = PyTrue THEN "self"
                                    ELSE "None"]
              /\ UNCHANGED <<qc_vars, qc_flags, qc_details, qc_by_var, alt_dim,
                             is_floater, has_altitude>>
              /\ UNCHANGED notQC

\* lines 507-514: the value add_sonde_flag_to_ds assigns to ds[qc_name]
SondeFlag(flags, dim) ==
    IF AllValues(flags) THEN 1
    ELSE IF AnyValue(flags) /\ Bool(Get(flags, dim \o str_values_suffix,
                                        PyTrue))
    THEN 2
    ELSE 0

add_sonde_flag_to_ds ==
    /\ QcReady
    /\ qc_ret' = Returned("add_sonde_flag_to_ds", <<>>,
                          SondeFlag(qc_flags, alt_dim))
    /\ UNCHANGED <<qc_vars, qc_flags, qc_details, qc_by_var, alt_dim,
                   is_floater, has_altitude>>
    /\ UNCHANGED notQC

\* the caller takes what the call returned (or handles what it raised)
\* and goes on
QcNextCall ==
    /\ ~QcReady
    /\ qc_ret' = NoRet
    /\ UNCHANGED <<qc_vars, qc_flags, qc_details, qc_by_var, alt_dim,
                   is_floater, has_altitude>>
    /\ UNCHANGED notQC

NextQC ==
    \/ set_qc_variables
    \/ get_is_floater
    \/ profile_fullness
    \/ near_surface_coverage
    \/ alt_near_gpsalt
    \/ low_physics
    \/ replace_alt_var
    \/ set_alt_dim
    \/ replace_alt_dim
    \/ check_qc
    \/ remove_non_qc_sondes
    \/ add_sonde_flag_to_ds
    \/ QcNextCall

SpecQC == InitQC /\ [][NextQC]_vars

-----------------------------------------------------------------------------
(* The flags by variable and the status byte.  The flags of a variable     *)
(* are a sequence of <<key, value>> in the order of the dict; a key enters *)
(* behind the keys already there.  The registry's own order is not kept:   *)
(* keys that enter together enter in any order.                            *)

\* the orders in which the elements of S can stand
Perms(S) ==
    {s \in [1..Cardinality(S) -> S] :
        \A i, j \in 1..Cardinality(S) : s[i] = s[j] => i = j}

KeysOf(od) == {od[i][1] : i \in DOMAIN od}

\* lines 286-287 and 293-294: the keys with f"{variable}_" in key
Matching(d, variable) ==
    {key \in DOMAIN d : Contains(key, variable \o str_underscore)}

\* the keys of the registry that are new to the flags of the variable
NewKeys(variable) ==
    Matching(qc_flags, variable) \ KeysOf(qc_by_var[variable].qc_flags)

\* one order of the new keys for every monitored variable
Orders ==
    LET V == Range(qc_vars)
    IN {o \in [V -> UNION {Perms(NewKeys(variable)) : variable \in V}] :
           \A variable \in V : o[variable] \in Perms(NewKeys(variable))}

\* dict.update: a key that is there keeps its place and takes the new
\* value, the new keys follow
UpdateOrdered(od, d, K, order) ==
    [i \in DOMAIN od |->
        IF od[i][1] \in K THEN <<od[i][1], d[od[i][1]]>> ELSE od[i]]
      \o [i \in DOMAIN order |-> <<order[i], d[order[i]]>>]

UpdateDetails(old, d, K) ==
    [key \in DOMAIN old \cup K |-> IF key \in K THEN d[key] ELSE old[key]]

\* QualityControl.get_qc_by_var: qc_by_var after the loop
GetQcByVar(order) ==
    [variable \in DOMAIN qc_by_var |->
        IF variable \in Range(qc_vars)
        THEN [qc_flags |->
                 UpdateOrdered(qc_by_var[variable].qc_flags, qc_flags,
                               Matching(qc_flags, variable),
                               order[variable]),
              qc_details |->
                 UpdateDetails(qc_by_var[variable].qc_details, qc_details,
                               Matching(qc_details, variable))]
        ELSE qc_by_var[variable]]

get_qc_by_var ==
    /\ QcReady
    /\ \E order \in Orders :
          qc_by_var' = GetQcByVar(order)
    /\ qc_ret' = NoRet
    /\ UNCHANGED <<qc_vars, qc_flags, qc_details, alt_dim, is_floater,
                   has_altitude>>
    /\ UNCHANGED notQC

\* np.byte(value) of a flag
NpByte(value) == IF Bool(value) THEN 1 ELSE 0

\* lines 321-326: qc_val after the first n flags
RECURSIVE QcVal(_, _)
QcVal(fl, n) ==
    IF n = 0 THEN 0
    ELSE QcVal(fl, n - 1) + Pow2(n - 1) * NpByte(fl[n][2])

\* a status that calls a byte GOOD when all bits but the last are set
QcStatusShort(qc_val, i) ==
    IF qc_val = 0 THEN "BAD"
    ELSE IF qc_val = Pow2(i) - 1 THEN "GOOD"
    ELSE "UGLY"

\* lines 328-333, i the index of the last flag (0-based)
QcStatus(qc_val, i) ==
    IF qc_val = 0 THEN "BAD"
    ELSE IF qc_val = Pow2(i + 1) - 1 THEN "GOOD"
    ELSE "UGLY"

\* key.split("_", 1)[1]
AfterUnderscore(key) == SubSeq(key, Find(key, "_") + 1, Len(key))

\* the variables get_byte_array is asked for: the monitored ones and one
\* that is not
ByteArrayVariables == {str_u, str_p, str_rh} \cup Range(qc_vars)

\* lines 319-320: qc_by_var as get_byte_array reads it; get_qc_by_var runs
\* only when the variable has no flags by variable
ByVarForByte(variable, order) ==
    IF \/ variable \notin DOMAIN qc_by_var
       \/ Len(qc_by_var[variable].qc_flags) = 0
    THEN GetQcByVar(order)
    ELSE qc_by_var

\* lines 321-341: what get_byte_array returns or raises on the flags by
\* variable
ByteArray(by_var, variable) ==
    IF variable \notin DOMAIN by_var
    THEN Raised("get_byte_array", <<variable>>, "AttributeError")
    ELSE LET fl == by_var[variable].qc_flags
             k == Len(fl)
         IN IF k = 0
            THEN Raised("get_byte_array", <<variable>>, "UnboundLocalError")
            ELSE Returned("get_byte_array", <<variable>>,
                          [byte |-> QcVal(fl, k),
                           flag_masks |-> [x \in 1..k |-> Pow2(x - 1)],
                           flag_meanings |->
                              [x \in 1..k |-> AfterUnderscore(fl[x][1])],
                           qc_status |-> QcStatus(QcVal(fl, k), k - 1)])

\* QualityControl.get_byte_array
get_byte_array ==
    /\ QcReady
    /\ \E variable \in ByteArrayVariables, order \in Orders :
          LET by_var == ByVarForByte(variable, order)
          IN /\ qc_by_var' = by_var
             /\ qc_ret' = ByteArray(by_var, variable)
    /\ UNCHANGED <<qc_vars, qc_flags, qc_details, alt_dim, is_floater,
                   has_altitude>>
    /\ UNCHANGED notQC

\* lines 359-360: qc_by_var as get_details reads it; get_qc_by_var runs
\* whenever the variable has an entry
ByVarForDetails(variable, order) ==
    IF variable \in DOMAIN qc_by_var THEN GetQcByVar(order) ELSE qc_by_var

\* lines 361-372: the details of the variable and, for every key, the name
\* its long_name is built from and its units
Details(by_var, variable) ==
    LET details == by_var[variable].qc_details
    IN [qc_details |-> details,
        attrs |-> [key \in DOMAIN details |->
                      [name |-> AfterUnderscore(key), units |-> "1"]]]

\* QualityControl.get_details
get_details ==
    /\ QcReady
    /\ \E variable \in ByteArrayVariables, order \in Orders :
          LET by_var == ByVarForDetails(variable, order)
          IN /\ qc_by_var' = by_var
             /\ qc_ret' =
                   IF variable \notin DOMAIN by_var
                   THEN Raised("get_details", <<variable>>, "AttributeError")
                   ELSE Returned("get_details", <<variable>>,
                                 Details(by_var, variable))
    /\ UNCHANGED <<qc_vars, qc_flags, qc_details, alt_dim, is_floater,
                   has_altitude>>
    /\ UNCHANGED notQC

\* QualityControl.add_variable_flags_to_ds: what it assigns to the dataset,
\* the byte under <variable>_qc and, with details, every detail under its
\* key.  get_details refreshes the flags by variable after the byte is
\* taken.
add_variable_flags_to_ds ==
    /\ QcReady
    /\ \E variable \in ByteArrayVariables, details \in BOOLEAN,
          order \in Orders :
          LET by_var == ByVarForByte(variable, order)
              value == ByteArray(by_var, variable)
              refreshed == GetQcByVar(order)
          IN IF value.raised # ""
             THEN /\ qc_by_var' = by_var
                  /\ qc_ret' = Raised("add_variable_flags_to_ds",
                                      <<variable, details>>, value.raised)
             ELSE /\ qc_by_var' = (IF details THEN refreshed ELSE by_var)
                  /\ qc_ret' =
                        Returned("add_variable_flags_to_ds",
                                 <<variable, details>>,
                                 [qc |-> value.val,
                                  details |->
                                     IF details
                                     THEN refreshed[variable].qc_details
                                     ELSE <<>>])
    /\ UNCHANGED <<qc_vars, qc_flags, qc_details, alt_dim, is_floater,
                   has_altitude>>
    /\ UNCHANGED notQC

NextQCVar ==
    \/ set_qc_variables
    \/ get_is_floater
    \/ profile_fullness
    \/ near_surface_coverage
    \/ low_physics
    \/ get_qc_by_var
    \/ get_byte_array
    \/ get_details
    \/ add_variable_flags_to_ds
    \/ QcNextCall

SpecQCVar == InitQC /\ [][NextQCVar]_vars

-----------------------------------------------------------------------------
(* Properties of the quality-control registry.                             *)

\* C2: when get_byte_array has returned for a variable, with k >= 1 flags
\* by variable, the byte is the sum of 2^i over the True flags (i from 0, in
\* the order of the flags), it lies in [0, 2^k - 1], and the status is BAD
\* exactly when all k flags are False, GOOD exactly when all k are True and
\* UGLY for every mixture; for a monitored variable with a registered flag
\* the call does not raise.
C2_ByteArrayStatus ==
    qc_ret.op = "get_byte_array" =>
        LET variable == qc_ret.args[1]
        IN /\ (variable \in Range(qc_vars)
                  /\ Matching(qc_flags, variable) # {})
                 => qc_ret.raised = ""
           /\ qc_ret.raised = "" =>
                 LET fl == qc_by_var[variable].qc_flags
                     k == Len(fl)
                     T == {i \in 1..k : fl[i][2] = PyTrue}
                     r == qc_ret.val
                 IN /\ k >= 1
                    /\ r.byte = IntSum(T, [i \in 1..k |-> Pow2(i - 1)])
                    /\ r.byte \in 0..(Pow2(k) - 1)
                    /\ r.qc_status \in {"BAD", "GOOD", "UGLY"}
                    /\ r.qc_status = "BAD" <=> T = {}
                    /\ r.qc_status = "BAD" <=> r.byte = 0
                    /\ r.qc_status = "GOOD" <=> T = 1..k
                    /\ r.qc_status = "GOOD" <=> r.byte = Pow2(k) - 1

\* get_byte_array returned UGLY for a variable with two checks, one passed
\* and one failed
C2_Witness ==
    /\ qc_ret.op = "get_byte_array"
    /\ qc_ret.raised = ""
    /\ qc_ret.val.qc_status = "UGLY"
    /\ Len(qc_by_var[qc_ret.args[1]].qc_flags) = 2

\* the entries of the registry that are boolean flags
BoolKeys == {key \in DOMAIN qc_flags : qc_flags[key] \in {PyTrue, PyFalse}}

\* the sonde status of the claim: 1 when every flag is True, 2 when at
\* least one is True and alt_near_gpsalt is not False, else 0
ClaimedSondeFlag ==
    IF \A key \in BoolKeys : qc_flags[key] = PyTrue THEN 1
    ELSE IF /\ \E key \in BoolKeys : qc_flags[key] = PyTrue
            /\ Get(qc_flags, str_alt_near_gpsalt, PyTrue) # PyFalse
    THEN 2
    ELSE 0

\* C3: in every state the registry reaches by the checks and the altitude
\* replacements in any order, the status add_sonde_flag_to_ds assigns is 1
\* if all flags are True, 2 if at least one flag is True and
\* alt_near_gpsalt is not violated, and 0 otherwise.
C3_SondeFlag ==
    qc_ret.op = "add_sonde_flag_to_ds" => qc_ret.val = ClaimedSondeFlag

\* a request that C9 calls valid: "all", a registered name, or a
\* comma-separated list of registered names
ValidRequest(used_flags) ==
    /\ used_flags.t = "str"
    /\ \/ used_flags.v[1] = str_all
       \/ Range(Split(used_flags.v[1], ",")) \subseteq DOMAIN qc_flags

RequestedNames(used_flags) ==
    IF used_flags.v[1] = str_all THEN DOMAIN qc_flags
    ELSE Range(Split(used_flags.v[1], ","))

\* C9: for a valid request check_qc returns True if and only if all
\* selected flags are True (check_ugly set), or at least one selected flag
\* is True (check_ugly not set).
C9_CheckQcAllAny ==
    (qc_ret.op = "check_qc" /\ ValidRequest(qc_ret.args[1])) =>
        LET names == RequestedNames(qc_ret.args[1]) \cap BoolKeys
        IN /\ qc_ret.raised = ""
           /\ qc_ret.val = PyTrue <=>
                 IF qc_ret.args[2]
                 THEN \A key \in names : qc_flags[key] = PyTrue
                 ELSE \E key \in names : qc_flags[key] = PyTrue

\* what holds of check_qc: C9 as long as replace_alt_dim has stored no
\* altitude_source in the registry
C9_OnBooleanRegistry ==
    BoolKeys = DOMAIN qc_flags => C9_CheckQcAllAny

\* C10: check_qc(None) returns True whatever the registry and check_ugly
\* are, and remove_non_qc_sondes without filter flags keeps the sonde for
\* either value of remove_ugly.
C10_NoFilterPasses ==
    /\ (qc_ret.op = "check_qc" /\ qc_ret.args[1].t = "None") =>
          (qc_ret.raised = "" /\ qc_ret.val = PyTrue)
    /\ (qc_ret.op = "remove_non_qc_sondes" /\ qc_ret.args[1].t = "None") =>
          (qc_ret.raised = "" /\ qc_ret.val = "self")

\* what holds of check_qc(None): True when check_ugly is set
C10_NoFilterPassesUgly ==
    (qc_ret.op \in {"check_qc", "remove_non_qc_sondes"}
        /\ qc_ret.args[1].t = "None" /\ qc_ret.args[2]) =>
        (qc_ret.raised = "" /\ qc_ret.val \in {PyTrue, "self"})

\* the entries of a request: the elements of a list, the parts of a str
Entries(used_flags) ==
    IF used_flags.t = "None" THEN <<>>
    ELSE IF used_flags.t = "list" THEN used_flags.v
    ELSE Split(used_flags.v[1], ",")

\* a request that C11 calls invalid on the registry `flags`: an all_except_
\* entry next to another entry, or a name (alone, in a list, or behind
\* all_except_) that is not registered
InvalidRequest(flags, used_flags) ==
    LET e == Entries(used_flags)
        E == {e[i] : i \in 1..Len(e)}
    IN /\ used_flags.t # "None"
       /\ ~(used_flags.t = "str" /\ used_flags.v[1] = str_all)
       /\ \/ Len(e) > 1 /\ \E x \in E : StartsWith(x, str_all_except)
          \/ \E x \in E :
                IF StartsWith(x, str_all_except)
                THEN Remove(x, str_all_except) \notin DOMAIN flags
                ELSE x \notin DOMAIN flags

\* ---- get_is_floater on its own

\* the longest dataset handed to get_is_floater
MaxFloaterSteps == 5

\* single time steps near and above the threshold altitude, with and
\* without a pressure
FloaterBlocks ==
    {Block(1, g, g, p, 5) : g \in {10, 11, 30}, p \in {1000, 1001, NaN}}

FloaterDatasets ==
    UNION {[1..k -> FloaterBlocks] : k \in 0..MaxFloaterSteps}

InitFloater ==
    /\ QcIdle
    /\ MonoIdle
    /\ BinIdle
    /\ PipeIdle
    /\ FitIdle
    /\ CircleIdle
    /\ XyIdle
    /\ GridIdle
    /\ NmIdle
    /\ SubstepIdle
    /\ ds \in FloaterDatasets

NextFloater ==
    \/ get_is_floater
    \/ QcNextCall

SpecFloater == InitFloater /\ [][NextFloater]_vars

\* the n steps of s from step i on stay within the tolerance of 1: each
\* differs from the one before it by less than 1 in altitude and pressure
StableRun(s, i, n) ==
    /\ i + n - 1 <= Len(s)
    /\ \A j \in i..(i + n - 2) :
          /\ Abs(s[j + 1].gpsalt - s[j].gpsalt) < 1
          /\ Abs(s[j + 1].p - s[j].p) < 1

\* C13: get_is_floater sets is_floater to True if and only if the steps
\* below the altitude threshold hold a run of consecutive_time_steps
\* consecutive steps within the tolerance, and then returns the time of the
\* first step of the first such run; otherwise it sets False and returns
\* None.
C13_FloaterRun ==
    qc_ret.op = "get_is_floater" =>
        LET s == surface_ds(ds)
            R == {i \in 1..Len(s) : StableRun(s, i, consecutive_time_steps)}
        IN /\ is_floater = PyTrue <=> R # {}
           /\ R # {} =>
                 qc_ret.val = PyTime(s[CHOOSE i \in R :
                                          \A j \in R : i <= j].time)
           /\ R = {} => qc_ret.val = PyNone

\* what holds of get_is_floater: is_floater is True if and only if two
\* consecutive steps below the threshold are within the tolerance, and a
\* time is returned exactly then
C13_FloaterPair ==
    qc_ret.op = "get_is_floater" =>
        LET s == surface_ds(ds)
            R == {i \in 1..Len(s) : StableRun(s, i, 2)}
        IN /\ is_floater = PyTrue <=> R # {}
           /\ qc_ret.val = PyNone <=> R = {}

\* ---- alt_near_gpsalt on its own

\* the longest dataset handed to alt_near_gpsalt
MaxAltSteps == 2

\* time steps whose barometric altitude lies 200 below, 10, 149, 150 and
\* 151 above the GPS altitude, or that miss one of the two
AltNearBlocks ==
    {Block(1, a, g, 1000, 5) :
        a \in {300, 510, 649, 650, 651, NaN}, g \in {500, NaN}}

\* at least one time step: the maximum of an empty array is not modelled
AltNearDatasets ==
    UNION {[1..k -> AltNearBlocks] : k \in 1..MaxAltSteps}

InitAltNear ==
    /\ QcIdle
    /\ MonoIdle
    /\ BinIdle
    /\ PipeIdle
    /\ FitIdle
    /\ CircleIdle
    /\ XyIdle
    /\ GridIdle
    /\ NmIdle
    /\ SubstepIdle
    /\ ds \in AltNearDatasets

NextAltNear ==
    \/ set_alt_dim
    \/ replace_alt_var
    \/ alt_near_gpsalt
    \/ QcNextCall

SpecAltNear == InitAltNear /\ [][NextAltNear]_vars

\* the absolute differences |alt - gpsalt| of the time steps that have both
AbsDiffs(d) ==
    {Abs(d[i].alt - d[i].gpsalt) :
        i \in {j \in 1..Len(d) : ~IsNaN(d[j].alt) /\ ~IsNaN(d[j].gpsalt)}}

\* C14: once alt_near_gpsalt has set its flag on a profile with at least
\* one time step that has both altitudes, the flag is False if and only if
\* the largest |alt - gpsalt| exceeds diff_threshold, and True otherwise.
C14_MaxAbsDiff ==
    (str_alt_near_gpsalt \in DOMAIN qc_flags /\ AbsDiffs(ds) # {}) =>
        (qc_flags[str_alt_near_gpsalt] = PyFalse
            <=> \E x \in AbsDiffs(ds) : x > diff_threshold)

\* what holds of alt_near_gpsalt: the flag is True if and only if the
\* largest signed difference alt - gpsalt is, in absolute value, below
\* diff_threshold
C14_AbsOfSignedMax ==
    str_alt_near_gpsalt \in DOMAIN qc_flags =>
        (qc_flags[str_alt_near_gpsalt] = PyTrue
            <=> (~IsNaN(MaxSkipNa(ds))
                    /\ Abs(MaxSkipNa(ds)) < diff_threshold))

\* C14 with the boundary of the code (a difference equal to
\* diff_threshold fails) still does not hold: the differences below zero
\* are not seen
C14_MaxAbsDiffAtLeast ==
    (str_alt_near_gpsalt \in DOMAIN qc_flags /\ AbsDiffs(ds) # {}) =>
        (qc_flags[str_alt_near_gpsalt] = PyFalse
            <=> \E x \in AbsDiffs(ds) : x >= diff_threshold)

\* ---- profile_fullness on its own

\* the most blocks of a dataset handed to profile_fullness, and the most
\* time steps of one block
MaxFullnessBlocks == 2

MaxFullnessSteps == 4

FullnessBlocks ==
    {Block(n, 500, 500, p, u) :
        n \in 1..MaxFullnessSteps, p \in {1000, NaN}, u \in {5, NaN}}

\* the dataset without a time step is among them
FullnessDatasets ==
    UNION {[1..k -> FullnessBlocks] : k \in 0..MaxFullnessBlocks}

InitFullness ==
    /\ QcIdle
    /\ MonoIdle
    /\ BinIdle
    /\ PipeIdle
    /\ FitIdle
    /\ CircleIdle
    /\ XyIdle
    /\ GridIdle
    /\ NmIdle
    /\ SubstepIdle
    /\ ds \in FullnessDatasets

NextFullness ==
    \/ set_qc_variables
    \/ profile_fullness

SpecFullness == InitFullness /\ [][NextFullness]_vars

\* the time steps of the dataset at which the variable has a value
ValidSteps(variable) ==
    LET steps == TimeSteps(ds, 0)
    IN {t \in 1..Len(steps) : ~IsNaN(Value(steps[t], variable))}

\* the fraction of the claim, for a profile with time_samples > 0:
\* valid / (time_samples / (timestamp_frequency / sampling_frequency)),
\* as numerator and denominator
ClaimedFraction(variable) ==
    <<Cardinality(ValidSteps(variable)) * timestamp_frequency,
      Len(TimeSteps(ds, 0)) * variable_dict[variable]>>

\* profile_fullness has run for the variable
FullnessDone(variable) ==
    /\ variable \in Range(qc_vars) \cap DOMAIN variable_dict
    /\ (variable \o str_profile_fullness_suffix) \in DOMAIN qc_flags

\* the claim on a profile with at least one time step: the detail is the
\* fraction, the flag is False below the threshold and True from it on
FullnessByFraction(variable) ==
    LET c == ClaimedFraction(variable)
        detail == qc_details[variable \o str_profile_fullness_fraction_suffix]
        flag == qc_flags[variable \o str_profile_fullness_suffix]
        below == c[1] * fullness_threshold[2] < fullness_threshold[1] * c[2]
    IN /\ ~QIsNaN(detail)
       /\ detail[1] * c[2] = c[1] * detail[2]
       /\ flag = (IF below THEN PyFalse ELSE PyTrue)

\* C15: once profile_fullness has run, each monitored variable with a
\* sampling frequency has the fraction valid / (time_samples /
\* (timestamp_frequency / sampling_frequency)) as its detail, its flag is
\* False below the threshold and True only from the threshold on, and a
\* variable without a valid sample, on a profile without a time step too,
\* is not flagged True.
C15_FullnessFraction ==
    \A variable \in DOMAIN variable_dict :
        FullnessDone(variable) =>
            /\ Len(TimeSteps(ds, 0)) > 0 => FullnessByFraction(variable)
            /\ ValidSteps(variable) = {} =>
                   qc_flags[variable \o str_profile_fullness_suffix]
                       # PyTrue

\* what holds of profile_fullness: C15 on every profile that has at least
\* one time step
C15_OnNonEmptyProfile ==
    ds # <<>> => C15_FullnessFraction

\* ---- near_surface_coverage on its own

\* the most blocks of a dataset handed to near_surface_coverage
MaxNearSurfaceBlocks == 2

\* blocks of one time step, of count_threshold time steps and of one
\* less, on the bounds of the band, inside it and without an altitude
NearSurfaceBlocks ==
    {Block(n, g, g, p, u) :
        n \in {1, count_threshold - 1, count_threshold},
        g \in {0, 500, 1000, NaN},
        p \in {1000, NaN}, u \in {5, NaN}}

NearSurfaceDatasets ==
    UNION {[1..k -> NearSurfaceBlocks] : k \in 0..MaxNearSurfaceBlocks}

InitNearSurface ==
    /\ QcIdle
    /\ MonoIdle
    /\ BinIdle
    /\ PipeIdle
    /\ FitIdle
    /\ CircleIdle
    /\ XyIdle
    /\ GridIdle
    /\ NmIdle
    /\ SubstepIdle
    /\ ds \in NearSurfaceDatasets

NextNearSurface ==
    \/ set_qc_variables
    \/ get_is_floater
    \/ near_surface_coverage
    \/ QcNextCall

SpecNearSurface == InitNearSurface /\ [][NextNearSurface]_vars

\* the time steps at which the variable has a value and the altitude lies
\* strictly between the bounds of the band
StepsInBand(variable) ==
    LET steps == TimeSteps(ds, 0)
    IN {t \in 1..Len(steps) :
           /\ ~IsNaN(Value(steps[t], variable))
           /\ ~IsNaN(steps[t].gpsalt)
           /\ alt_bounds[1] < steps[t].gpsalt
           /\ steps[t].gpsalt < alt_bounds[2]}

\* the time steps with a value whose altitude lies in the band or on one
\* of its bounds
StepsInClosedBand(variable) ==
    LET steps == TimeSteps(ds, 0)
    IN {t \in 1..Len(steps) :
           /\ ~IsNaN(Value(steps[t], variable))
           /\ ~IsNaN(steps[t].gpsalt)
           /\ alt_bounds[1] <= steps[t].gpsalt
           /\ steps[t].gpsalt <= alt_bounds[2]}

C17_ProceedsWithoutFloaterCheck ==
    (qc_ret.op = "near_surface_coverage" /\ is_floater = "unset") =>
        qc_ret.raised = ""

\* what holds of near_surface_coverage: it raises if and only if
\* is_floater has never been set
C17_RaisesIffUnset ==
    qc_ret.op = "near_surface_coverage" =>
        (qc_ret.raised = "AttributeError" /\ is_floater = "unset")

\* C11: every call of check_qc leaves the registry as it was, and a call
\* with an invalid request (an unregistered name alone, in a list or behind
\* all_except_, or all_except_ next to another entry at any position)
\* raises an error.
C11_InvalidRequestRaises ==
    [][(qc_ret.op = "" /\ qc_ret'.op = "check_qc") =>
          /\ qc_flags' = qc_flags
          /\ qc_details' = qc_details
          /\ InvalidRequest(qc_flags, qc_ret'.args[1]) =>
                 qc_ret'.raised # ""]_vars

\* check_qc raised on a request whose names are all registered, because
\* all_except_ stands behind another entry
C11_Witness ==
    /\ qc_ret.op = "check_qc"
    /\ qc_ret.raised = "ValueError"
    /\ qc_ret.args[1] =
          PyStr(str_u_near_surface \o <<",">> \o str_all_except
                    \o str_p_near_surface)
    /\ {str_u_near_surface, str_p_near_surface} \subseteq DOMAIN qc_flags

\* C12: check_qc("all_except_<prefix>") does not raise and returns the
\* all/any result over the registered flags whose name does not start
\* with <prefix>.
C12_AllExceptPrefix ==
    (/\ qc_ret.op = "check_qc"
     /\ qc_ret.args[1].t = "str"
     /\ Len(Split(qc_ret.args[1].v[1], ",")) = 1
     /\ StartsWith(qc_ret.args[1].v[1], str_all_except)) =>
        LET prefix == Remove(qc_ret.args[1].v[1], str_all_except)
            names == {key \in DOMAIN qc_flags : ~StartsWith(key, prefix)}
        IN /\ qc_ret.raised = ""
           /\ qc_ret.val = AllOrAny(qc_flags, names, qc_ret.args[2])

\* what holds of all_except_: when the text behind it is the full name of
\* a registered flag, exactly that flag is left out
C12_AllExceptName ==
    (/\ qc_ret.op = "check_qc"
     /\ qc_ret.args[1].t = "str"
     /\ Len(Split(qc_ret.args[1].v[1], ",")) = 1
     /\ StartsWith(qc_ret.args[1].v[1], str_all_except)
     /\ Remove(qc_ret.args[1].v[1], str_all_except) \in DOMAIN qc_flags) =>
        LET name == Remove(qc_ret.args[1].v[1], str_all_except)
        IN /\ qc_ret.raised = ""
           /\ qc_ret.val = AllOrAny(qc_flags, DOMAIN qc_flags \ {name},
                                    qc_ret.args[2])

-----------------------------------------------------------------------------
(* run_pipeline over the shipped `pipeline` dictionary (pipeline.py).  A   *)
(* dict of sondes or circles is the sequence of its keys; the objects      *)
(* themselves are the functions cont, qc_ok, segments and circles.         *)

MaxSondes == 2

MaxSegments == 1

iterate_Sonde == "iterate_Sonde_method_over_dict_of_Sondes_objects"

iterate_Circle == "iterate_Circle_method_over_dict_of_Circle_objects"

\* the steps of the dictionary, in its order; `output` is the list of the
\* keys of substep["output"]
pipeline ==
    << [step |-> "create_flight", intake |-> "None",
        output |-> <<"platforms", "sondes">>,
        apply |-> "create_and_populate_flight_object",
        functions |-> <<>>],
       [step |-> "create_L1", intake |-> "sondes", apply |-> iterate_Sonde,
        output |-> <<"sondes">>,
        functions |-> <<"filter_no_launch_detect", "run_aspen",
                        "add_aspen_ds", "add_aspen_history">>],
       [step |-> "qc", intake |-> "sondes", apply |-> iterate_Sonde,
        output |-> <<"sondes">>,
        functions |-> <<"init_qc", "detect_floater",
                        "crop_aspen_ds_to_landing_time",
                        "get_flight_attributes", "set_alt_dim",
                        "create_interim_l2_ds", "get_l2_variables",
                        "convert_to_si", "below_aircraft_qc", "get_qc",
                        "replace_alt_dim">>],
       [step |-> "create_L2", intake |-> "sondes", apply |-> iterate_Sonde,
        output |-> <<"sondes">>,
        functions |-> <<"get_sonde_attributes",
                        "add_l2_attributes_to_interim_l2_ds",
                        "add_sonde_id_variable", "add_platform_id_variable",
                        "add_flight_id_variable", "add_qc_to_l2",
                        "get_l2_filename", "update_history_l2",
                        "write_l2">>],
       [step |-> "process_L2", intake |-> "sondes", apply |-> iterate_Sonde,
        output |-> <<"sondes">>,
        functions |-> <<"check_interim_l3", "get_l2_filename", "add_l2_ds",
                        "create_interim_l3", "remove_above_aircraft",
                        "add_q_and_theta_to_l2_ds",
                        "remove_non_mono_incr_alt", "swap_alt_dimension",
                        "interpolate_alt", "recalc_rh_and_ta", "add_ids",
                        "add_wind", "add_attributes_as_var",
                        "make_attr_coordinates", "add_qc_to_interim_l3",
                        "add_iwv", "add_Nm_to_vars", "update_history_l3",
                        "add_expected_coords", "save_interim_l3">>],
       [step |-> "create_gridded", intake |-> "sondes",
        output |-> <<"gridded">>,
        apply |-> "sondes_to_gridded", functions |-> <<>>],
       [step |-> "create_L3", intake |-> "gridded",
        output |-> <<"gridded">>,
        apply |-> "apply_method_to_dataset",
        functions |-> <<"check_aspen_version", "check_pydropsonde_version",
                        "add_history_to_gridded", "add_dim_names",
                        "concat_sondes", "get_l3_dir", "get_l3_filename",
                        "update_history_concat_l3", "write_l3">>],
       [step |-> "get_circles", intake |-> "gridded",
        output |-> <<"gridded">>,
        apply |-> "apply_method_to_dataset",
        functions |-> <<"add_l3_ds",
                        "get_circle_times_from_segmentation">>],
       [step |-> "create_circles", intake |-> "gridded",
        output |-> <<"gridded">>,
        apply |-> "create_and_populate_circle_object",
        functions |-> <<>>],
       [step |-> "prepare_circle_dataset", intake |-> "gridded",
        output |-> <<"gridded">>,
        apply |-> iterate_Circle,
        functions |-> <<"get_xy_coords_for_circles", "drop_vars",
                        "interpolate_na_sondes">>],
       [step |-> "calculate_circle_data", intake |-> "gridded",
        output |-> <<"gridded">>,
        apply |-> iterate_Circle,
        functions |-> <<"apply_fit2d", "add_divergence", "add_vorticity",
                        "add_omega", "add_wvel",
                        "add_circle_variables_to_ds">>],
       [step |-> "concatenate_circles", intake |-> "gridded",
        output |-> <<"gridded">>,
        apply |-> "apply_method_to_dataset",
        functions |-> <<"concat_circles">>],
       [step |-> "create_L4", intake |-> "gridded",
        output |-> <<"gridded">>,
        apply |-> "apply_method_to_dataset",
        functions |-> <<"get_l4_dir", "get_l4_filename",
                        "update_history_l4", "write_l4">>] >>

\* the substep run_pipeline is at
Substep == pipeline[step_index]

\* the position of the step "qc" in the dictionary
QcStepIndex == CHOOSE i \in DOMAIN pipeline : pipeline[i].step = "qc"

InitPipe ==
    /\ PipeIdle
    /\ FitIdle
    /\ CircleIdle
    /\ XyIdle
    /\ GridIdle
    /\ NmIdle
    /\ SubstepIdle
    /\ MonoIdle
    /\ BinIdle
    /\ QcIdle
    /\ DataIdle

\* run_substep for the step at hand is to be called
AtStep(apply) ==
    /\ pipe_pc = "step"
    /\ step_index \in DOMAIN pipeline
    /\ Substep.apply = apply

\* the step "create_flight": the flight's sondes are an input
create_and_populate_flight_object ==
    /\ AtStep("create_and_populate_flight_object")
    /\ \E n \in 0..MaxSondes :
          /\ previous_substep_output' =
                ("platforms" :> "platforms") @@ ("sondes" :> [i \in 1..n |-> i])
          /\ cont' = [i \in 1..n |-> TRUE]
          /\ qc_ok' = [i \in 1..n |-> "unset"]
    /\ step_index' = step_index + 1
    /\ UNCHANGED <<pipe_pc, function_index, items, key_index, my_dict,
                   new_dict, handed_after_qc, gridded_sondes, l3_ds,
                   segments, circles>>
    /\ UNCHANGED <<applied, dropped>>
    /\ UNCHANGED notPipe

\* line 325: my_dict = obj
iterate_Sonde_start ==
    /\ AtStep(iterate_Sonde)
    /\ my_dict' = previous_substep_output[Substep.intake]
    /\ function_index' = 1
    /\ pipe_pc' = "outer"
    /\ applied' = <<>>
    /\ UNCHANGED <<step_index, previous_substep_output, items, key_index,
                   new_dict, cont, qc_ok, handed_after_qc, gridded_sondes,
                   l3_ds, segments, circles>>
    /\ UNCHANGED <<dropped>>
    /\ UNCHANGED notPipe

\* lines 326-327 and 337: the head of the loop over the functions, and the
\* return of my_dict, which run_substep stores under the output key
iterate_Sonde_outer ==
    /\ pipe_pc = "outer"
    /\ Substep.apply = iterate_Sonde
    /\ IF function_index <= Len(Substep.functions)
       THEN /\ new_dict' = <<>>
            /\ items' = my_dict
            /\ key_index' = 1
            /\ pipe_pc' = "inner"
            /\ UNCHANGED <<step_index, previous_substep_output>>
       ELSE /\ previous_substep_output' =
                  Put(previous_substep_output, Substep.output[1], my_dict)
            /\ step_index' = step_index + 1
            /\ pipe_pc' = "step"
            /\ UNCHANGED <<new_dict, items, key_index>>
    /\ UNCHANGED <<function_index, my_dict, cont, qc_ok, handed_after_qc,
                   gridded_sondes, l3_ds, segments, circles>>
    /\ UNCHANGED <<applied, dropped>>
    /\ UNCHANGED notPipe

\* lines 332-333 and 379-380: new_dict after `if result is not None:
\* new_dict[key] = result`
KeptAlways(new, key, result) == Append(new, key)

Kept(new, key, result) ==
    IF result # "None" THEN Append(new, key) ELSE new

\* what a method of Sonde can do to the sonde: its result (self or None)
\* and the attributes it leaves.  The data of the sonde are inputs: whether
\* a launch was detected, what the checks of get_qc find, whether
\* replace_alt_dim finds no usable altitude, whether the interim Level-3
\* file is already there.
SondeMethod(function_name, sonde) ==
    LET same(result) ==
            [result |-> result, cont |-> cont[sonde], qc_ok |-> qc_ok[sonde]]
    IN CASE function_name = "filter_no_launch_detect" ->
                {same("self"), same("None")}
         [] function_name = "get_qc" ->
                {[result |-> "self", cont |-> cont[sonde], qc_ok |-> ok] :
                    ok \in {"True", "False"}}
         [] function_name = "replace_alt_dim" ->
                {same("self"), same("None")}
         [] function_name = "remove_non_qc_sondes" ->
                {same(IF qc_ok[sonde] = "False" THEN "None" ELSE "self")}
         [] function_name = "check_interim_l3" ->
                {[result |-> "self", cont |-> c, qc_ok |-> qc_ok[sonde]] :
                    c \in BOOLEAN}
         [] OTHER -> {same("self")}

\* lines 328-336: one pass of the loop over the sondes, and its end
iterate_Sonde_inner ==
    /\ pipe_pc = "inner"
    /\ Substep.apply = iterate_Sonde
    /\ IF key_index <= Len(items)
       THEN LET key == items[key_index]
                function_name == Substep.functions[function_index]
            IN /\ IF cont[key]
                  THEN \E r \in SondeMethod(function_name, key) :
                          /\ new_dict' = Kept(new_dict, key, r.result)
                          /\ applied' =
                                Append(applied,
                                       [function |-> function_index,
                                        key |-> key, result |-> r.result,
                                        cont |-> r.cont,
                                        dropped_before |-> FALSE])
                          /\ cont' = [cont EXCEPT ![key] = r.cont]
                          /\ qc_ok' = [qc_ok EXCEPT ![key] = r.qc_ok]
                          /\ handed_after_qc' =
                                (IF step_index > QcStepIndex
                                 THEN handed_after_qc \cup {key}
                                 ELSE handed_after_qc)
                  ELSE /\ new_dict' = Append(new_dict, key)
                       /\ UNCHANGED <<cont, qc_ok, handed_after_qc, applied>>
               /\ my_dict' = new_dict'
               /\ key_index' = key_index + 1
               /\ UNCHANGED <<function_index, pipe_pc>>
       ELSE /\ function_index' = function_index + 1
            /\ pipe_pc' = "outer"
            /\ UNCHANGED <<new_dict, my_dict, key_index, cont, qc_ok,
                           handed_after_qc, applied>>
    /\ UNCHANGED <<step_index, previous_substep_output, items,
                   gridded_sondes, l3_ds, segments, circles>>
    /\ UNCHANGED <<dropped>>
    /\ UNCHANGED notPipe

\* list(sondes.values())[0] raises IndexError on an empty dict
sondes_to_gridded ==
    /\ AtStep("sondes_to_gridded")
    /\ IF Len(previous_substep_output["sondes"]) = 0
       THEN /\ pipe_pc' = "raised"
            /\ UNCHANGED <<step_index, previous_substep_output,
                           gridded_sondes>>
       ELSE /\ gridded_sondes' = previous_substep_output["sondes"]
            /\ previous_substep_output' =
                  Put(previous_substep_output, Substep.output[1], "Gridded")
            /\ step_index' = step_index + 1
            /\ UNCHANGED pipe_pc
    /\ UNCHANGED <<function_index, items, key_index, my_dict, new_dict,
                   cont, qc_ok, handed_after_qc, l3_ds, segments, circles>>
    /\ UNCHANGED <<applied, dropped>>
    /\ UNCHANGED notPipe

\* apply_method_to_dataset: the methods of Gridded run in list order and
\* the result of the last one is returned.  concat_sondes concatenates the
\* datasets of Gridded.sondes; get_circle_times_from_segmentation returns
\* None without a yaml_file and else sets the segments, which are an input
\* (each with the sondes of l3_ds it selects); the other methods return self.
apply_method_to_dataset ==
    /\ AtStep("apply_method_to_dataset")
    /\ IF previous_substep_output[Substep.intake] = "None"
       THEN /\ pipe_pc' = "raised"
            /\ UNCHANGED <<step_index, previous_substep_output, l3_ds,
                           segments>>
       ELSE LET functions == Substep.functions
                l3 == IF "concat_sondes" \in Range(functions)
                      THEN Range(gridded_sondes)
                      ELSE l3_ds
            IN /\ l3_ds' = l3
               /\ IF functions[Len(functions)] =
                        "get_circle_times_from_segmentation"
                  THEN \E yaml_file \in {"None", "file"} :
                          IF yaml_file = "None"
                          THEN /\ previous_substep_output' =
                                     Put(previous_substep_output, Substep.output[1],
                                         "None")
                               /\ UNCHANGED segments
                          ELSE /\ \E m \in 0..MaxSegments :
                                     segments' \in [1..m -> SUBSET l3]
                               /\ previous_substep_output' =
                                     Put(previous_substep_output, Substep.output[1],
                                         "Gridded")
                  ELSE /\ previous_substep_output' =
                             Put(previous_substep_output, Substep.output[1],
                                 "Gridded")
                       /\ UNCHANGED segments
               /\ step_index' = step_index + 1
               /\ UNCHANGED pipe_pc
    /\ UNCHANGED <<function_index, items, key_index, my_dict, new_dict,
                   cont, qc_ok, handed_after_qc, gridded_sondes, circles>>
    /\ UNCHANGED <<applied, dropped>>
    /\ UNCHANGED notPipe

\* a circle for every segment that selects a sonde; gridded.segments of
\* None raises AttributeError
create_and_populate_circle_object ==
    /\ AtStep("create_and_populate_circle_object")
    /\ IF previous_substep_output[Substep.intake] = "None"
       THEN /\ pipe_pc' = "raised"
            /\ UNCHANGED <<step_index, previous_substep_output, circles>>
       ELSE /\ circles' =
                  [segment \in {g \in DOMAIN segments : segments[g] # {}} |->
                      segments[segment]]
            /\ previous_substep_output' =
                  Put(previous_substep_output, Substep.output[1], "Gridded")
            /\ step_index' = step_index + 1
            /\ UNCHANGED pipe_pc
    /\ UNCHANGED <<function_index, items, key_index, my_dict, new_dict,
                   cont, qc_ok, handed_after_qc, gridded_sondes, l3_ds,
                   segments>>
    /\ UNCHANGED <<applied, dropped>>
    /\ UNCHANGED notPipe

\* the keys of a dict of circles, in its order
CircleKeys(d) ==
    LET n == Cardinality(DOMAIN d)
    IN CHOOSE order \in [1..n -> DOMAIN d] :
          \A i, j \in 1..n : i < j => order[i] < order[j]

\* line 370: my_dict = obj.circles
iterate_Circle_start ==
    /\ AtStep(iterate_Circle)
    /\ IF previous_substep_output[Substep.intake] = "None"
       THEN /\ pipe_pc' = "raised"
            /\ UNCHANGED <<my_dict, function_index, applied>>
       ELSE /\ my_dict' = CircleKeys(circles)
            /\ function_index' = 1
            /\ pipe_pc' = "outer"
            /\ applied' = <<>>
    /\ UNCHANGED <<step_index, previous_substep_output, items, key_index,
                   new_dict, cont, qc_ok, handed_after_qc, gridded_sondes,
                   l3_ds, segments, circles>>
    /\ UNCHANGED <<dropped>>
    /\ UNCHANGED notPipe

\* lines 372-373 and 383-384: the head of the loop over the functions, and
\* obj.circles.update(my_dict), which leaves every key of obj.circles
iterate_Circle_outer ==
    /\ pipe_pc = "outer"
    /\ Substep.apply = iterate_Circle
    /\ IF function_index <= Len(Substep.functions)
       THEN /\ new_dict' = <<>>
            /\ items' = my_dict
            /\ key_index' = 1
            /\ pipe_pc' = "inner"
            /\ UNCHANGED <<step_index, previous_substep_output>>
       ELSE /\ previous_substep_output' =
                  Put(previous_substep_output, Substep.output[1], "Gridded")
            /\ step_index' = step_index + 1
            /\ pipe_pc' = "step"
            /\ UNCHANGED <<new_dict, items, key_index>>
    /\ UNCHANGED <<function_index, my_dict, cont, qc_ok, handed_after_qc,
                   gridded_sondes, l3_ds, segments, circles>>
    /\ UNCHANGED <<applied, dropped>>
    /\ UNCHANGED notPipe

\* the result of a method of Circle: get_xy_coords_for_circles returns None
\* when lon or lat of the circle is empty (an input), every other method
\* returns self
CircleMethod(function_name) ==
    IF function_name = "get_xy_coords_for_circles" THEN {"self", "None"}
    ELSE {"self"}

\* lines 374-381: one pass of the loop over the circles, and its end
iterate_Circle_inner ==
    /\ pipe_pc = "inner"
    /\ Substep.apply = iterate_Circle
    /\ IF key_index <= Len(items)
       THEN /\ \E result \in
                     CircleMethod(Substep.functions[function_index]) :
                  LET key == items[key_index]
                  IN /\ new_dict' = Kept(new_dict, key, result)
                     /\ applied' =
                           Append(applied,
                                  [function |-> function_index,
                                   key |-> key, result |-> result,
                                   cont |-> TRUE,
                                   dropped_before |-> key \in dropped])
                     /\ dropped' = (IF result = "None"
                                    THEN dropped \cup {key}
                                    ELSE dropped)
            /\ my_dict' = new_dict'
            /\ key_index' = key_index + 1
            /\ UNCHANGED <<function_index, pipe_pc>>
       ELSE /\ function_index' = function_index + 1
            /\ pipe_pc' = "outer"
            /\ UNCHANGED <<new_dict, my_dict, key_index, applied, dropped>>
    /\ UNCHANGED <<step_index, previous_substep_output, items, cont, qc_ok,
                   handed_after_qc, gridded_sondes, l3_ds, segments,
                   circles>>
    /\ UNCHANGED notPipe

NextPipe ==
    \/ create_and_populate_flight_object
    \/ iterate_Sonde_start
    \/ iterate_Sonde_outer
    \/ iterate_Sonde_inner
    \/ sondes_to_gridded
    \/ apply_method_to_dataset
    \/ create_and_populate_circle_object
    \/ iterate_Circle_start
    \/ iterate_Circle_outer
    \/ iterate_Circle_inner

SpecPipe == InitPipe /\ [][NextPipe]_vars

-----------------------------------------------------------------------------
(* Properties of the shipped pipeline.                                     *)

\* the sondes for which check_qc on the filter flags returns False
QcFailed == {sonde \in DOMAIN qc_ok : qc_ok[sonde] = "False"}

\* C4: in the shipped pipeline a sonde for which check_qc on the filter
\* flags returns False is dropped: no step after "qc" applies a method to
\* it, and it is in no Level-3 dataset and in no circle.
C4_FailedSondeDropped ==
    \A sonde \in QcFailed :
        /\ sonde \notin handed_after_qc
        /\ sonde \notin l3_ds
        /\ \A segment \in DOMAIN circles : sonde \notin circles[segment]

\* iterate_Sonde_method_over_dict_of_Sondes_objects is running
InSondeCall ==
    /\ pipe_pc \in {"outer", "inner"}
    /\ Substep.apply = iterate_Sonde

\* the dict of sondes handed to the running call
SondeObj == previous_substep_output[Substep.intake]

\* the running call has left its loop over the functions and returns my_dict
SondeReturning ==
    /\ InSondeCall
    /\ pipe_pc = "outer"
    /\ function_index > Len(Substep.functions)

\* a method of the running call returned None for the sonde or circle
GotNone(key) ==
    \E i \in DOMAIN applied :
        applied[i].key = key /\ applied[i].result = "None"

NeverNone(key) == ~GotNone(key)

\* the running call applied the function at position f to the sonde
AppliedTo(f, key) ==
    \E i \in DOMAIN applied :
        applied[i].function = f /\ applied[i].key = key

\* before the function at position f the sonde was taken out of the loop:
\* a method returned None for it, or left its cont False, or its cont was
\* False when the call began
OutBefore(f, key) ==
    \/ \E i \in DOMAIN applied :
          /\ applied[i].key = key
          /\ applied[i].function < f
          /\ (applied[i].result = "None" \/ ~applied[i].cont)
    \/ (~cont[key] /\ \A i \in DOMAIN applied : applied[i].key # key)

\* C25: iterate_Sonde_method_over_dict_of_Sondes_objects applies the listed
\* methods in list order, each method to all remaining sondes before the
\* next method starts; a sonde is in the returned dictionary if and only if
\* no method applied to it returned None; once a method has returned None
\* for a sonde no later method is applied to it; and a sonde whose cont is
\* False has no further method applied and is always retained.
C25_IterateSonde ==
    InSondeCall =>
        /\ \A i, j \in DOMAIN applied :
              i < j => applied[i].function <= applied[j].function
        /\ \A f \in 1..(function_index - 1) : \A key \in Range(SondeObj) :
              AppliedTo(f, key) \/ OutBefore(f, key)
        /\ \A i, j \in DOMAIN applied :
              (i < j /\ applied[i].key = applied[j].key) =>
                  (applied[i].result # "None" /\ applied[i].cont)
        /\ SondeReturning =>
              /\ my_dict = SelectSeq(SondeObj, NeverNone)
              /\ \A key \in Range(SondeObj) :
                    ~cont[key] => key \in Range(my_dict)

\* the step "qc" returns: replace_alt_dim returned None for one sonde after
\* ten methods, and the other sonde went through all eleven
C25_Witness ==
    /\ SondeReturning
    /\ Substep.step = "qc"
    /\ Len(SondeObj) = 2
    /\ Len(my_dict) = 1
    /\ GotNone(SondeObj[1])
    /\ Len(applied) = 2 * Len(Substep.functions)

\* the step "process_L2" returns: check_interim_l3 left cont False for one
\* sonde, which got no further method and is returned, and the other sonde
\* went through all twenty
C25_ContFalseKept ==
    /\ SondeReturning
    /\ Substep.step = "process_L2"
    /\ Len(SondeObj) = 2
    /\ ~cont[SondeObj[1]]
    /\ cont[SondeObj[2]]
    /\ my_dict = SondeObj
    /\ Len(applied) = 1 + Len(Substep.functions)

\* C26: after iterate_Circle_method_over_dict_of_Circle_objects returns, a
\* circle for which an applied method returned None is no longer in
\* gridded.circles, and no later circle step is run on it.
C26_DroppedCircleGone ==
    /\ pipe_pc = "step" => dropped \cap DOMAIN circles = {}
    /\ \A i \in DOMAIN applied : ~applied[i].dropped_before

\* what the code does: inside the call that got the None no later method is
\* applied to the circle, and obj.circles.update(my_dict) takes no key out,
\* so the circle stays in gridded.circles
C26_DroppedCircleStays ==
    /\ dropped \subseteq DOMAIN circles
    /\ \A i, j \in DOMAIN applied :
          (i < j /\ applied[i].key = applied[j].key) =>
              applied[i].result # "None"

\* the step after the one that got the None applies its first method to the
\* circle
C26_DroppedCircleFitted ==
    /\ Substep.step = "calculate_circle_data"
    /\ \E i \in DOMAIN applied :
          /\ applied[i].dropped_before
          /\ Substep.functions[applied[i].function] = "apply_fit2d"

\* get_circle_times_from_segmentation ran with yaml_file None: its None is
\* what the step "get_circles" stored under "gridded"
NoSegmentationFile ==
    /\ "gridded" \in DOMAIN previous_substep_output
    /\ previous_substep_output["gridded"] = "None"

\* C30: with yaml_file None get_circle_times_from_segmentation warns and
\* run_pipeline over the default pipeline still terminates normally: every
\* step after get_circles does nothing or completes, no exception is raised.
C30_NoSegmentationFileCompletes ==
    NoSegmentationFile => pipe_pc # "raised"

\* what the code does: the run gets no further than the step
\* "create_circles", which is handed the None
C30_StopsAtCreateCircles ==
    NoSegmentationFile => Substep.step = "create_circles"

\* create_and_populate_circle_object raised on the None
C30_RaisedAtCreateCircles ==
    /\ NoSegmentationFile
    /\ pipe_pc = "raised"
    /\ Substep.step = "create_circles"

-----------------------------------------------------------------------------
(* run_substep (pipeline.py) on one substep.  A dict of outputs is a       *)
(* function from its keys; `previous` is the empty dict when run_pipeline   *)
(* hands in None.  The output of substep["apply"] is an input: one value    *)
(* for every key of substep["output"].                                      *)

\* the keys run_pipeline's steps store their outputs under
OutputKeys == {"platforms", "sondes", "gridded"}

\* the values earlier substeps stored, and the values `apply` returns
StoredValue == "stored"

AppliedValues == <<"first output", "second output">>

\* substep["output"]: a key, or a list of keys
SubstepOutputs ==
    {[is_list |-> FALSE, keys |-> <<"sondes">>],
     [is_list |-> FALSE, keys |-> <<"gridded">>],
     [is_list |-> TRUE, keys |-> <<"platforms", "sondes">>]}

SubstepArgs ==
    {[previous_is_none |-> none, previous |-> previous, intake |-> intake,
      has_functions |-> has_functions, output |-> output,
      applied_output |-> SubSeq(AppliedValues, 1, Len(output.keys))] :
        none \in BOOLEAN,
        previous \in UNION {[keys -> {StoredValue}] : keys \in SUBSET OutputKeys},
        intake \in {"None", "sondes", "gridded"},
        has_functions \in BOOLEAN,
        output \in SubstepOutputs}

InitSubstep ==
    /\ substep_args \in {a \in SubstepArgs :
                            a.previous_is_none => a.previous = <<>>}
    /\ substep_ret = <<>>
    /\ PipeIdle
    /\ FitIdle
    /\ CircleIdle
    /\ XyIdle
    /\ GridIdle
    /\ NmIdle
    /\ MonoIdle
    /\ BinIdle
    /\ QcIdle
    /\ DataIdle

\* lines 446-449: the output of `apply` stored under the key or keys of
\* substep["output"]
StoreOutput(d, keys, output) ==
    [k \in DOMAIN d \cup Range(keys) |->
        IF k \in Range(keys)
        THEN output[CHOOSE i \in DOMAIN keys :
                        keys[i] = k /\ \A j \in DOMAIN keys :
                                          keys[j] = k => j <= i]
        ELSE d[k]]

\* lines 437-444: the dict the output is stored in.  Without "functions" and
\* with intake None it is a new empty dict; otherwise it is the dict handed
\* in, which is subscripted with the intake.
IntakeDict(a) ==
    IF ~a.has_functions /\ a.intake = "None"
    THEN [raised |-> "", dict |-> <<>>]
    ELSE IF a.previous_is_none
    THEN [raised |-> "TypeError", dict |-> <<>>]
    ELSE IF a.intake \notin DOMAIN a.previous
    THEN [raised |-> "KeyError", dict |-> <<>>]
    ELSE [raised |-> "", dict |-> a.previous]

run_substep ==
    /\ substep_args # <<>>
    /\ substep_ret = <<>>
    /\ LET d == IntakeDict(substep_args)
       IN substep_ret' =
             IF d.raised # ""
             THEN Raised("run_substep", substep_args, d.raised)
             ELSE Returned("run_substep", substep_args,
                           StoreOutput(d.dict, substep_args.output.keys,
                                       substep_args.applied_output))
    /\ UNCHANGED substep_args
    /\ UNCHANGED notSubstep

NextSubstep == run_substep

SpecSubstep == InitSubstep /\ [][NextSubstep]_vars

\* run_substep returned a dict
SubstepReturned == substep_ret # <<>> /\ substep_ret.raised = ""

\* the returned dict is `earlier` with the outputs of `apply` under the keys
\* of substep["output"] and every other key as it was
OnlyOutputStored(earlier) ==
    LET a == substep_ret.args
        d == substep_ret.val
    IN /\ DOMAIN d = DOMAIN earlier \cup Range(a.output.keys)
       /\ \A k \in DOMAIN earlier \ Range(a.output.keys) : d[k] = earlier[k]
       /\ \A i \in DOMAIN a.output.keys :
             d[a.output.keys[i]] = a.applied_output[i]

\* C27: for every substep run_substep returns the dictionary of earlier
\* outputs with only the key or keys named in substep["output"] added or
\* replaced; every other key stored by an earlier substep keeps its value.
C27_OnlyOutputKeys ==
    SubstepReturned => OnlyOutputStored(substep_ret.args.previous)

\* a substep that takes nothing in and has no "functions"
SourceSubstep(a) == ~a.has_functions /\ a.intake = "None"

\* what the code does: a substep with an intake or with "functions" keeps
\* the earlier outputs, and a substep with neither starts from the empty
\* dict
C27_UnlessSourceSubstep ==
    SubstepReturned =>
        OnlyOutputStored(IF SourceSubstep(substep_ret.args) THEN <<>>
                         ELSE substep_ret.args.previous)

\* a substep with intake None and no "functions" was run on a dict that
\* held an output under another key than its own, and returned
C27_EarlierOutputLost ==
    /\ SubstepReturned
    /\ SourceSubstep(substep_ret.args)
    /\ "gridded" \in DOMAIN substep_ret.args.previous
    /\ "gridded" \notin DOMAIN substep_ret.val

\* in run_pipeline over the shipped pipeline, whose only substep without
\* intake is the first, a step leaves every key it does not name as it was
C27_ShippedPipelineKeeps ==
    [][\A k \in DOMAIN previous_substep_output :
          k \notin Range(Substep.output) =>
              /\ k \in DOMAIN previous_substep_output'
              /\ previous_substep_output'[k] = previous_substep_output[k]]_vars

-----------------------------------------------------------------------------
(* Circle.fit2d (circles.py) at one altitude level: the plane              *)
(* u = intercept + dux * x + duy * y through the sondes of a circle.  The  *)
(* results are exact fractions <<n, d, 0>>.                                *)

\* the number of sondes of the circle
NFitSondes == 7

\* line 195: fewer valid sondes than this leave the level under-constrained
min_valid_sondes == 6

\* the places of the sondes around the centre of the circle, in whole units;
\* no six of them lie on one line
SondeX(i) == <<1, 1, 0, -1, -1, -1, 0, 1>>[i]

SondeY(i) == <<0, 1, 1, 1, 0, -1, -1, -1>>[i]

\* the planes and the deviations from them the model hands in
PlaneCoefficients == {<<a, b, c>> : a \in {0, 1}, b \in {0, 1}, c \in {0, 2}}

\* x, y and u of the sondes for a field on the plane pl, with 1 added at
\* the sondes of `off`, and a NaN at each sonde of `missing`: in u, x or y
\* according to the number of the sonde
FitInput(pl, off, missing) ==
    [x |-> [i \in 1..NFitSondes |->
               IF i \in missing /\ i % 3 = 2 THEN NaN ELSE SondeX(i)],
     y |-> [i \in 1..NFitSondes |->
               IF i \in missing /\ i % 3 = 0 THEN NaN ELSE SondeY(i)],
     u |-> [i \in 1..NFitSondes |->
               IF i \in missing /\ i % 3 = 1 THEN NaN
               ELSE pl[1] + pl[2] * SondeX(i) + pl[3] * SondeY(i)
                        + (IF i \in off THEN 1 ELSE 0)]]

FitInputs ==
    {FitInput(pl, off, missing) :
        pl \in PlaneCoefficients, off \in SUBSET {1, 2},
        missing \in SUBSET (1..NFitSondes)}

\* line 193
invalid(args, i) ==
    IsNaN(args.u[i]) \/ IsNaN(args.x[i]) \/ IsNaN(args.y[i])

\* line 195
under_constraint(args) ==
    Cardinality({i \in 1..Len(args.u) : ~invalid(args, i)})
        < min_valid_sondes

\* line 196
u_cal(args, i) == IF invalid(args, i) THEN 0 ELSE args.u[i]

\* the row of `a` without line 197, a sonde without u keeping its place
RowZeroedOnPlace(args, i) ==
    IF IsNaN(args.x[i]) \/ IsNaN(args.y[i]) THEN <<0, 0, 0>>
    ELSE <<1, args.x[i], args.y[i]>>

\* lines 191 and 197: the row [1, x, y] of `a`, zero for an invalid sonde
Row(args, i) ==
    IF invalid(args, i) THEN <<0, 0, 0>>
    ELSE <<1, args.x[i], args.y[i]>>

Det3(m) ==
    m[1][1] * (m[2][2] * m[3][3] - m[2][3] * m[3][2])
        - m[1][2] * (m[2][1] * m[3][3] - m[2][3] * m[3][1])
        + m[1][3] * (m[2][1] * m[3][2] - m[2][2] * m[3][1])

\* a^T a and a^T u_cal
Gram(args) ==
    [r \in 1..3 |-> [c \in 1..3 |->
        SeqSum([i \in 1..Len(args.u) |-> Row(args, i)[r] * Row(args, i)[c]])]]

Moment(args) ==
    [r \in 1..3 |->
        SeqSum([i \in 1..Len(args.u) |-> Row(args, i)[r] * u_cal(args, i)])]

\* lines 199-200: pinv(a) applied to u_cal.  With the columns of `a`
\* independent, pinv(a) = (a^T a)^-1 a^T, solved here by Cramer's rule; the
\* minimum-norm solution for dependent columns is not modelled (it does
\* not arise with six valid sondes of the places above)
PinvSolution(args) ==
    LET g == Gram(args)
        m == Moment(args)
        WithColumn(k) ==
            [r \in 1..3 |-> [c \in 1..3 |-> IF c = k THEN m[r] ELSE g[r][c]]]
    IN [k \in 1..3 |-> Norm(Det3(WithColumn(k)), Det3(g))]

\* Circle.fit2d: <<intercept, dux, duy>>
Fit2d(args) ==
    IF under_constraint(args) THEN <<QNaN, QNaN, QNaN>>
    ELSE PinvSolution(args)

InitFit ==
    /\ fit_args \in FitInputs
    /\ fit_ret = <<>>
    /\ CircleIdle
    /\ XyIdle
    /\ GridIdle
    /\ NmIdle
    /\ SubstepIdle
    /\ MonoIdle
    /\ BinIdle
    /\ QcIdle
    /\ DataIdle
    /\ PipeIdle

fit2d ==
    /\ fit_ret = <<>>
    /\ fit_ret' = Fit2d(fit_args)
    /\ UNCHANGED fit_args
    /\ UNCHANGED notFit

NextFit == fit2d

SpecFit == InitFit /\ [][NextFit]_vars

\* the sondes with value, x and y
ValidSondes ==
    {i \in 1..Len(fit_args.u) :
        ~IsNaN(fit_args.u[i]) /\ ~IsNaN(fit_args.x[i])
            /\ ~IsNaN(fit_args.y[i])}

RECURSIVE QSum(_)
QSum(s) == IF s = <<>> THEN Q(0) ELSE QAdd(Head(s), QSum(Tail(s)))

\* the plane r = <<a, b, c>> is the least-squares plane through the sondes
\* of V: its residuals u - a - b*x - c*y are orthogonal to 1, x and y over V
LeastSquaresOver(V, r) ==
    LET Residual(i) ==
            QSub(Q(fit_args.u[i]),
                 QAdd(r[1], QAdd(QMul(r[2], Q(fit_args.x[i])),
                                 QMul(r[3], Q(fit_args.y[i])))))
        Weighted(w) ==
            QSum([i \in 1..Len(fit_args.u) |->
                     IF i \in V THEN QMul(Q(w[i]), Residual(i)) ELSE Q(0)])
    IN /\ Weighted([i \in 1..Len(fit_args.u) |-> 1]) = Q(0)
       /\ Weighted(fit_args.x) = Q(0)
       /\ Weighted(fit_args.y) = Q(0)

\* C18: with fewer than 6 sondes that have value, x and y, fit2d returns
\* NaN for mean, d/dx and d/dy; with at least 6 it returns the least-squares
\* plane through exactly the valid sondes, and a field that lies on a plane
\* a + b*x + c*y at the valid sondes comes back as (a, b, c).
C18_Fit2d ==
    fit_ret # <<>> =>
        IF Cardinality(ValidSondes) < 6
        THEN \A k \in 1..3 : QIsNaN(fit_ret[k])
        ELSE /\ \A k \in 1..3 : ~QIsNaN(fit_ret[k])
             /\ LeastSquaresOver(ValidSondes, fit_ret)
             /\ \A pl \in PlaneCoefficients :
                   (\A i \in ValidSondes :
                       fit_args.u[i] = pl[1] + pl[2] * fit_args.x[i]
                                           + pl[3] * fit_args.y[i])
                       => fit_ret = <<Q(pl[1]), Q(pl[2]), Q(pl[3])>>

\* fit2d has fitted a field that lies on no plane, through exactly 6 valid
\* sondes, the seventh having x and y but no value
C18_Witness ==
    /\ fit_ret # <<>>
    /\ ValidSondes = 2..7
    /\ ~IsNaN(fit_args.x[1]) /\ ~IsNaN(fit_args.y[1])
    /\ ~QIsNaN(fit_ret[1])
    /\ \A pl \in PlaneCoefficients :
          \E i \in ValidSondes :
              fit_args.u[i] # pl[1] + pl[2] * fit_args.x[i]
                                  + pl[3] * fit_args.y[i]

-----------------------------------------------------------------------------
(* The circle products (circles.py): divergence, vorticity, and the        *)
(* integrals omega and wvel over the altitude levels of circle_ds.  The    *)
(* levels stand in ascending altitude; values are whole numbers or NaN.    *)

\* the number of altitude levels of the circle dataset
NLevels == 3

\* the altitude of level i on the grid of Level 3, and the pressure there
LevelAltitude(i) == interp_step * (i - 1)

LevelPressure(i) == 1000 - 10 * i

\* the gradients of one level: a uniform wind, a divergent one, one with
\* vorticity and no divergence, and levels without dudx or without dudy
LevelGradients ==
    {[dudx |-> 0, dudy |-> 0, dvdx |-> 0, dvdy |-> 0],
     [dudx |-> 1, dudy |-> 1, dvdx |-> 0, dvdy |-> 1],
     [dudx |-> 1, dudy |-> 0, dvdx |-> 1, dvdy |-> -1],
     [dudx |-> NaN, dudy |-> 0, dvdx |-> 0, dvdy |-> 0],
     [dudx |-> 0, dudy |-> NaN, dvdx |-> 0, dvdy |-> 0]}

\* circle_ds after apply_fit2d; at least one level has both dudx and dvdy
CircleInputs ==
    {[name \in {"dudx", "dudy", "dvdx", "dvdy", "mean_p"} |->
         [i \in 1..NLevels |->
             IF name = "mean_p"
             THEN (IF i \in nop THEN NaN ELSE LevelPressure(i))
             ELSE g[i][name]]] :
        g \in {h \in [1..NLevels -> LevelGradients] :
                  \E i \in 1..NLevels : ~IsNaN(h[i].dudx)},
        nop \in SUBSET (1..NLevels)}

\* float arithmetic with NaN
FAdd(a, b) == IF IsNaN(a) \/ IsNaN(b) THEN NaN ELSE a + b

FSub(a, b) == IF IsNaN(a) \/ IsNaN(b) THEN NaN ELSE a - b

FMul(a, b) == IF IsNaN(a) \/ IsNaN(b) THEN NaN ELSE a * b

\* line 323 with the sign of the second term turned
DivergenceOfDifference(c, i) == FSub(c["dudx"][i], c["dvdy"][i])

\* line 323: D = ds.dudx + ds.dvdy
Divergence(c, i) == FAdd(c["dudx"][i], c["dvdy"][i])

\* line 343: vor = ds.dvdx - ds.dudy
Vorticity(c, i) == FSub(c["dvdx"][i], c["dudy"][i])

\* lines 365 and 393: where(~np.isnan(ds.div), drop=True).sortby(alt_dim),
\* as the levels that are kept, in ascending altitude
KeptLevels(c) ==
    LET Keep(i) == ~IsNaN(c["div"][i])
    IN SelectSeq([i \in 1..NLevels |-> i], Keep)

\* cumsum(dim=alt_dim) of xarray on floats skips NaN: a NaN adds nothing
RECURSIVE CumSum(_, _)
CumSum(s, k) ==
    IF k = 0 THEN 0
    ELSE CumSum(s, k - 1) + (IF IsNaN(s[k]) THEN 0 ELSE s[k])

\* broadcast_like(ds.div): the values at the kept levels, NaN elsewhere
BroadcastLike(kept, values) ==
    [i \in 1..NLevels |->
        IF \E k \in 1..Len(kept) : kept[k] = i
        THEN values[CHOOSE k \in 1..Len(kept) : kept[k] = i]
        ELSE NaN]

\* lines 366-370; 0.01 * 60**2 is taken as 36
Omega(c) ==
    LET kept == KeptLevels(c)
        pres_diff ==
            [k \in 1..Len(kept) |->
                IF k = 1 THEN 0
                ELSE FSub(c["mean_p"][kept[k]], c["mean_p"][kept[k - 1]])]
        del_omega ==
            [k \in 1..Len(kept) |->
                FMul(-c["div"][kept[k]], pres_diff[k])]
    IN BroadcastLike(kept,
                     [k \in 1..Len(kept) |-> CumSum(del_omega, k) * 36])

\* lines 394-401
Wvel(c) ==
    LET kept == KeptLevels(c)
        height_diff ==
            [k \in 1..Len(kept) |->
                LevelAltitude(kept[k])
                    - (IF k = 1 THEN 0 ELSE LevelAltitude(kept[k - 1]))]
        del_w ==
            [k \in 1..Len(kept) |-> FMul(-c["div"][kept[k]], height_diff[k])]
    IN BroadcastLike(kept, [k \in 1..Len(kept) |-> CumSum(del_w, k)])

InitCircle ==
    /\ circle_ds \in CircleInputs
    /\ FitIdle
    /\ MonoIdle
    /\ BinIdle
    /\ QcIdle
    /\ DataIdle
    /\ PipeIdle
    /\ XyIdle
    /\ GridIdle
    /\ NmIdle
    /\ SubstepIdle

\* each method runs once, as in the step calculate_circle_data, and when
\* the variables it reads are in circle_ds
add_divergence ==
    /\ "div" \notin DOMAIN circle_ds
    /\ circle_ds' =
          Put(circle_ds, "div",
              [i \in 1..NLevels |-> Divergence(circle_ds, i)])
    /\ UNCHANGED notCircle

add_vorticity ==
    /\ "vor" \notin DOMAIN circle_ds
    /\ circle_ds' =
          Put(circle_ds, "vor",
              [i \in 1..NLevels |-> Vorticity(circle_ds, i)])
    /\ UNCHANGED notCircle

add_omega ==
    /\ "div" \in DOMAIN circle_ds
    /\ "omega" \notin DOMAIN circle_ds
    /\ circle_ds' = Put(circle_ds, "omega", Omega(circle_ds))
    /\ UNCHANGED notCircle

add_wvel ==
    /\ {"div", "omega"} \subseteq DOMAIN circle_ds
    /\ "wvel" \notin DOMAIN circle_ds
    /\ circle_ds' = Put(circle_ds, "wvel", Wvel(circle_ds))
    /\ UNCHANGED notCircle

NextCircle ==
    \/ add_divergence
    \/ add_vorticity
    \/ add_omega
    \/ add_wvel

SpecCircle == InitCircle /\ [][NextCircle]_vars

\* the divergence is NaN at level i or at a level below it
DivNaNUpTo(i) == \E j \in 1..i : IsNaN(circle_ds["div"][j])

\* C19: omega and wvel are NaN at every level at which, or below which,
\* the divergence is NaN; a level has a value only if the divergence is
\* valid from the lowest level up to it.
C19_NaNPropagatesUpward ==
    \A name \in {"omega", "wvel"} :
        name \in DOMAIN circle_ds =>
            \A i \in 1..NLevels :
                DivNaNUpTo(i) => IsNaN(circle_ds[name][i])

\* what holds of add_omega and add_wvel: a level is NaN if and only if the
\* divergence is NaN at that very level
C19_NaNOnlyAtLevel ==
    \A name \in {"omega", "wvel"} :
        name \in DOMAIN circle_ds =>
            \A i \in 1..NLevels :
                IsNaN(circle_ds[name][i]) <=> IsNaN(circle_ds["div"][i])

\* the wind is uniform: all four gradients are 0 at every level
UniformWind ==
    \A name \in {"dudx", "dudy", "dvdx", "dvdy"} :
        \A i \in 1..NLevels : circle_ds[name][i] = 0

\* a + b and a - b of the claim, NaN when a term is NaN
SumOrNaN(a, b) == IF a = NaN \/ b = NaN THEN NaN ELSE a + b

\* C20: div is dudx + dvdy and vor is dvdx - dudy at every level, and for a
\* uniform wind div, vor, omega and wvel are 0 at every level.
C20_DivergenceAndVorticity ==
    /\ "div" \in DOMAIN circle_ds =>
          \A i \in 1..NLevels :
              circle_ds["div"][i] =
                  SumOrNaN(circle_ds["dudx"][i], circle_ds["dvdy"][i])
    /\ "vor" \in DOMAIN circle_ds =>
          \A i \in 1..NLevels :
              circle_ds["vor"][i] =
                  (IF IsNaN(circle_ds["dudy"][i]) THEN NaN
                   ELSE SumOrNaN(circle_ds["dvdx"][i], -circle_ds["dudy"][i]))
    /\ UniformWind =>
          \A name \in {"div", "vor", "omega", "wvel"} \cap DOMAIN circle_ds :
              \A i \in 1..NLevels : circle_ds[name][i] = 0

\* all four products are there for a uniform wind with a pressure at
\* every level
C20_Witness ==
    /\ {"div", "vor", "omega", "wvel"} \subseteq DOMAIN circle_ds
    /\ UniformWind
    /\ \A i \in 1..NLevels : ~IsNaN(circle_ds["mean_p"][i])

\* all four products are there for a divergent wind, with a divergence of
\* 2 at the lowest level and an omega that is not 0 at the highest
C20_DivergentReached ==
    /\ {"div", "vor", "omega", "wvel"} \subseteq DOMAIN circle_ds
    /\ circle_ds["div"][1] = 2
    /\ circle_ds["vor"][1] = -1
    /\ circle_ds["omega"][NLevels] \notin {0, NaN}

-----------------------------------------------------------------------------
(* Circle.get_xy_coords_for_circles (circles.py, lines 75-140).  lon and   *)
(* lat are rationals in degrees, one per sonde and altitude level; the     *)
(* circle fit of the library circle_fit is not part of the source: what it *)
(* returns at each level is an input (lsq), and the points it was called   *)
(* with are recorded.                                                      *)

NXySondes == 6

NXyLevels == 2

\* 111.32 * 1000 and 110.54 * 1000 (lines 85, 87)
metres_per_degree_lon == 111320

metres_per_degree_lat == 110540

\* a.sum() > 4 (line 99)
min_fit_positions == 4

QDiv(a, b) ==
    IF QIsNaN(a) \/ QIsNaN(b) THEN QNaN ELSE Norm(a[1] * b[2], a[2] * b[1])

\* np.cos(np.radians(lat)) at the latitudes of the model, which are those
\* with a rational cosine
CosTable == (Q(0) :> Q(1)) @@ (Q(60) :> <<1, 2, 0>>) @@ (Q(-60) :> <<1, 2, 0>>)

CosRadians(lat) == IF QIsNaN(lat) THEN QNaN ELSE CosTable[lat]

\* np.nanmean: the mean of the values that are not NaN, NaN when there is
\* none
NanMean(s) ==
    LET valid == SelectSeq(s, LAMBDA q : ~QIsNaN(q))
    IN IF valid = <<>> THEN QNaN ELSE QDivInt(QSum(valid), Len(valid))

\* lines 84-87, for one sonde at one level
x_coor(c, i, j) ==
    QMul(QMul(c.lon[i][j], Q(metres_per_degree_lon)), CosRadians(c.lat[i][j]))

y_coor(c, i, j) == QMul(c.lat[i][j], Q(metres_per_degree_lat))

XySondes(c) == 1..Len(c.lon)

\* a.sum() at level j (line 98)
ValidPositions(c, j) ==
    Cardinality({i \in XySondes(c) : ~QIsNaN(x_coor(c, i, j))})

\* the argument of cf.least_squares_circle at level j (lines 101-105)
FitPoints(c, j) ==
    LET all == [i \in XySondes(c) |-> <<x_coor(c, i, j), y_coor(c, i, j)>>]
    IN SelectSeq(all, LAMBDA pt : ~QIsNaN(pt[1]))

FitAttempted(c, j) == ValidPositions(c, j) > min_fit_positions

\* c_xc, c_yc, c_r after the loop (lines 93-105): k is 1, 2, 3
FitColumn(c, k) ==
    [j \in 1..NXyLevels |-> IF FitAttempted(c, j) THEN c.lsq[j][k] ELSE QNaN]

\* lines 107-112
FittedLat(c) == QDiv(NanMean(FitColumn(c, 2)), Q(metres_per_degree_lat))

FittedLon(c) ==
    QDiv(NanMean(FitColumn(c, 1)),
         QMul(Q(metres_per_degree_lon), CosRadians(FittedLat(c))))

FittedRad(c) == NanMean(FitColumn(c, 3))

PyQ(q) == [t |-> "float", v |-> q]

\* the object after the branch of lines 92-116
WithCentre(c) ==
    IF c.clat = PyNone
    THEN [c EXCEPT !.clat = PyQ(FittedLat(c)), !.clon = PyQ(FittedLon(c)),
                   !.crad = PyQ(FittedRad(c))]
    ELSE c

\* lines 118-122
delta_x(c, i, j) ==
    LET xc == QMul(c.clon.v,
                   QMul(Q(metres_per_degree_lon), CosRadians(c.clat.v)))
    IN QSub(x_coor(c, i, j), xc)

delta_y(c, i, j) ==
    QSub(y_coor(c, i, j), QMul(c.clat.v, Q(metres_per_degree_lat)))

XyGrid(c, f(_, _, _)) ==
    [i \in XySondes(c) |-> [j \in 1..NXyLevels |-> f(c, i, j)]]

\* the positions of the model: sonde i is at XyLon(i), XyLat(i) at the
\* levels where it has a position
XyLon(i) == Q(i % 3)

XyLat(i) == Q(60 * ((i % 3) - 1))

\* at level j the first nvalid[j] sondes have a position; of the others
\* `missing` says which coordinate is NaN
XyPositions(nvalid, missing) ==
    [lon |-> [i \in 1..NXySondes |-> [j \in 1..NXyLevels |->
                 IF i <= nvalid[j] \/ missing = "lat" THEN XyLon(i)
                 ELSE QNaN]],
     lat |-> [i \in 1..NXySondes |-> [j \in 1..NXyLevels |->
                 IF i <= nvalid[j] \/ missing = "lon" THEN XyLat(i)
                 ELSE QNaN]]]

\* what the library gives for a level: the centres of one circle lie at one
\* latitude yc, so that the mean latitude has a rational cosine
LsqResults(yc) ==
    {<<Q(0), yc, Q(1000)>>, <<Q(metres_per_degree_lon), yc, Q(3000)>>}

XyCircles ==
    { [lon |-> pos.lon, lat |-> pos.lat, clat |-> clat, clon |-> clon,
       crad |-> crad, lsq |-> lsq, x |-> <<>>, y |-> <<>>] :
        pos \in {XyPositions(nvalid, missing) :
                    nvalid \in [1..NXyLevels ->
                                   {0, min_fit_positions, min_fit_positions + 1,
                                    NXySondes}],
                    missing \in {"both", "lon", "lat"}}
                \cup {[lon |-> <<>>, lat |-> <<>>]},
        clat \in {PyNone, PyQ(Q(0)), PyQ(Q(60))},
        clon \in {PyNone, PyQ(Q(1))},
        crad \in {PyNone, PyQ(Q(5000))},
        lsq \in UNION {[1..NXyLevels -> LsqResults(Q(k * metres_per_degree_lat))] :
                          k \in {-60, 0, 60}} }

InitXy ==
    /\ circle \in XyCircles
    /\ xy_ret = <<>>
    /\ MonoIdle
    /\ BinIdle
    /\ QcIdle
    /\ DataIdle
    /\ PipeIdle
    /\ FitIdle
    /\ CircleIdle
    /\ GridIdle
    /\ NmIdle
    /\ SubstepIdle

\* the call returns None on an empty lon or lat (lines 80-82), raises
\* TypeError when it multiplies a clon that is None (line 119), and
\* otherwise assigns x and y and returns the object
get_xy_coords_for_circles ==
    /\ circle # <<>>
    /\ xy_ret = <<>>
    /\ LET c == WithCentre(circle)
           calls == [j \in 1..NXyLevels |->
                        IF circle.clat = PyNone /\ FitAttempted(circle, j)
                        THEN FitPoints(circle, j) ELSE <<>>]
       IN IF circle.lon = <<>> \/ circle.lat = <<>>
          THEN /\ xy_ret' = [args |-> circle, raised |-> "", val |-> "None",
                             calls |-> <<>>]
               /\ UNCHANGED circle
          ELSE IF c.clon = PyNone
          THEN /\ xy_ret' = [args |-> circle, raised |-> "TypeError",
                             val |-> "", calls |-> calls]
               /\ circle' = c
          ELSE /\ circle' = [c EXCEPT !.x = XyGrid(c, delta_x),
                                      !.y = XyGrid(c, delta_y)]
               /\ xy_ret' = [args |-> circle, raised |-> "", val |-> "self",
                             calls |-> calls]
    /\ UNCHANGED notXy

\* the caller takes the result; the object can be handed in again
XyNextCall ==
    /\ xy_ret # <<>>
    /\ xy_ret.val = "self"
    /\ xy_ret' = <<>>
    /\ UNCHANGED <<circle, notXy>>

NextXy == get_xy_coords_for_circles \/ XyNextCall

SpecXy == InitXy /\ [][NextXy]_vars

\* ---- properties of get_xy_coords_for_circles

XyDone == xy_ret # <<>> /\ xy_ret.args.lon # <<>>

\* a sonde has a valid position at a level when its lon and lat are numbers
HasPosition(c, i, j) == ~QIsNaN(c.lon[i][j]) /\ ~QIsNaN(c.lat[i][j])

PositionsAt(c, j) == {i \in 1..Len(c.lon) : HasPosition(c, i, j)}

FittedLevels(c) == {j \in 1..NXyLevels : Cardinality(PositionsAt(c, j)) >= 5}

MeanOver(levels, c, k) ==
    IF levels = {} THEN QNaN
    ELSE LET RECURSIVE Sum(_)
             Sum(S) == IF S = {} THEN Q(0)
                       ELSE LET j == CHOOSE j \in S : TRUE
                            IN QAdd(c.lsq[j][k], Sum(S \ {j}))
         IN QDivInt(Sum(levels), Cardinality(levels))

\* the metric coordinates of a position in degrees
MetricX(lon, lat) ==
    QMul(lon, QMul(Q(metres_per_degree_lon), CosRadians(lat)))

MetricY(lat) == QMul(lat, Q(metres_per_degree_lat))

Supplied(c) == {f \in {"clat", "clon", "crad"} : c[f] # PyNone}

\* what was supplied is kept
KeepsSupplied == \A f \in Supplied(xy_ret.args) : circle[f] = xy_ret.args[f]

\* the fit is made at the levels with at least 5 positions, on these
\* positions, and the centre and radius are the means over these levels
FitsByLevel ==
    LET a == xy_ret.args
        L == FittedLevels(a)
    IN /\ \A j \in 1..NXyLevels :
            xy_ret.calls[j] =
                IF j \in L
                THEN SelectSeq([i \in 1..Len(a.lon) |->
                                   IF HasPosition(a, i, j)
                                   THEN <<MetricX(a.lon[i][j], a.lat[i][j]),
                                          MetricY(a.lat[i][j])>>
                                   ELSE <<>>],
                               LAMBDA pt : pt # <<>>)
                ELSE <<>>
       /\ MetricY(circle.clat.v) = MeanOver(L, a, 2)
       /\ MetricX(circle.clon.v, circle.clat.v) = MeanOver(L, a, 1)
       /\ circle.crad.v = MeanOver(L, a, 3)

\* x and y of every sonde at every level are its offsets from the centre
OffsetsFromCentre ==
    /\ xy_ret.raised = ""
    /\ \A i \in 1..Len(circle.lon) : \A j \in 1..NXyLevels :
        /\ circle.x[i][j] =
               QSub(MetricX(circle.lon[i][j], circle.lat[i][j]),
                    MetricX(circle.clon.v, circle.clat.v))
        /\ circle.y[i][j] =
               QSub(MetricY(circle.lat[i][j]), MetricY(circle.clat.v))

\* C21: get_xy_coords_for_circles uses a supplied centre and radius
\* unchanged, fits level by level (at least 5 valid positions) and takes the
\* means over the fitted levels when none is supplied, and in both cases
\* sets x and y of every sonde at every level to its offset from the centre
C21_XyCoords ==
    XyDone =>
        /\ KeepsSupplied
        /\ Supplied(xy_ret.args) = {} => FitsByLevel
        /\ OffsetsFromCentre

\* the same when the segment supplies all of clat, clon and radius or none
\* of them
C21_AllOrNoneSupplied ==
    (XyDone /\ Cardinality(Supplied(xy_ret.args)) \in {0, 3}) =>
        /\ KeepsSupplied
        /\ Supplied(xy_ret.args) = {} => FitsByLevel
        /\ OffsetsFromCentre

\* what the code does: the branch is taken on clat alone
C21_BranchOnClat ==
    XyDone =>
        LET a == xy_ret.args
        IN /\ a.clat = PyNone => FitsByLevel
           /\ a.clat # PyNone => /\ KeepsSupplied
                                 /\ circle.crad = a.crad
                                 /\ (a.clon = PyNone) = (xy_ret.raised = "TypeError")
           /\ xy_ret.raised = "" => OffsetsFromCentre

-----------------------------------------------------------------------------
(* Sonde.interpolate_alt with method "bin" on the grid its arguments give  *)
(* (processor.py, lines 1292-1387), for one variable q.  Values are in     *)
(* tenths: 8 stands for 0.8.                                               *)

\* np.arange(interp_start, interp_stop, interp_step), for stop > start
Arange(start, stop, step) ==
    [k \in 1..((stop - start + step - 1) \div step) |-> start + step * (k - 1)]

\* a histogram whose last bin is right-open like the others
InBinOfAllHalfOpen(e, a, i) ==
    /\ ~IsNaN(a)
    /\ e[i] <= a
    /\ a < e[i + 1]

\* histogram(..., bins=e): bin i holds the values in [e[i], e[i+1]), the
\* last bin its upper edge too; NaN is in no bin
InBinOf(e, a, i) ==
    /\ ~IsNaN(a)
    /\ e[i] <= a
    /\ (a < e[i + 1] \/ (i = Len(e) - 1 /\ a = e[i + 1]))

\* the samples of bin i: ds[alt_dim].where(~np.isnan(ds[var])) is binned
MembersOf(e, a, i) ==
    {k \in 1..Len(a.alt) :
        InBinOf(e, IF IsNaN(a.q[k]) THEN NaN ELSE a.alt[k], i)}

\* count_dict[var] and the bin mean (lines 1330-1347)
CountOf(e, a, i) == Cardinality(MembersOf(e, a, i))

MeanOf(e, a, i) ==
    QDivInt(SumOver(MembersOf(e, a, i), [k \in 1..Len(a.q) |-> Q(a.q[k])]),
            CountOf(e, a, i))

\* interpolate_na(dim, max_gap, use_coordinate=True) on the bin centres
\* (lines 1356-1363): twice the centre of bin i is e[i] + e[i+1]
InterpolateNaOf(e, y, max_gap, i) ==
    IF ~QIsNaN(y[i]) THEN y[i]
    ELSE LET l == LeftValid(y, i)
             r == RightValid(y, i)
             c2(j) == e[j] + e[j + 1]
         IN IF l = 0 \/ r = 0 THEN QNaN
            ELSE IF c2(r) - c2(l) <= 2 * max_gap
                 THEN QAdd(y[l], QMul(QSub(y[r], y[l]),
                                      Norm(c2(i) - c2(l), c2(r) - c2(l))))
                 ELSE QNaN

\* interim_l3_ds after the call: N, the values and, with interpolate, m
InterpolateAlt(a) ==
    LET e == Arange(a.interp_start, a.interp_stop, a.interp_step)
        bins == 1..(Len(e) - 1)
        N == [i \in bins |-> CountOf(e, a, i)]
        mean == [i \in bins |-> MeanOf(e, a, i)]
        filled == [i \in bins |-> InterpolateNaOf(e, mean, a.max_gap_fill, i)]
    IN IF a.interpolate
       THEN [edges |-> e, N |-> N, q |-> filled,
             m |-> [i \in bins |-> MValue(N[i], filled[i])]]
       ELSE [edges |-> e, N |-> N, q |-> mean, m |-> <<>>]

\* the soundings: the samples at 30, 20, 15 and 10 m or some of them, in
\* descending order, each with the value 0.7, 0.8 or NaN
GridAltitudes == <<30, 20, 15, 10>>

GridSoundings ==
    UNION {{[alt |-> SelectSeq(GridAltitudes, LAMBDA x : x \in S), q |-> v] :
               v \in [1..Cardinality(S) -> {7, 8, NaN}]} :
           S \in SUBSET {GridAltitudes[k] : k \in DOMAIN GridAltitudes}}

GridArgs ==
    {[interp_start |-> g[1], interp_stop |-> g[2], interp_step |-> 10,
      interpolate |-> f[1], max_gap_fill |-> f[2], alt |-> s.alt, q |-> s.q] :
        g \in {<<0, 31>>, <<0, 40>>, <<10, 31>>, <<0, 21>>, <<-5, 36>>},
        f \in {<<FALSE, 50>>, <<TRUE, 10>>, <<TRUE, 20>>},
        s \in GridSoundings}

InitGrid ==
    /\ grid_args \in GridArgs
    /\ grid_ret = <<>>
    /\ MonoIdle
    /\ BinIdle
    /\ QcIdle
    /\ DataIdle
    /\ PipeIdle
    /\ FitIdle
    /\ CircleIdle
    /\ XyIdle
    /\ NmIdle
    /\ SubstepIdle

interpolate_alt ==
    /\ grid_args # <<>>
    /\ grid_ret = <<>>
    /\ grid_ret' = InterpolateAlt(grid_args)
    /\ UNCHANGED <<grid_args, notGrid>>

NextGrid == interpolate_alt

SpecGrid == InitGrid /\ [][NextGrid]_vars

\* ---- the worked examples

FourSamples ==
    /\ grid_ret # <<>>
    /\ grid_ret.edges = <<0, 10, 20, 30>>
    /\ grid_args.alt = <<30, 20, 15, 10>>
    /\ grid_args.q = <<8, 7, 8, 7>>

TwoSamples ==
    /\ grid_ret # <<>>
    /\ grid_ret.edges = <<10, 20, 30>>
    /\ grid_args.alt = <<30, 20>>
    /\ grid_args.q = <<8, 7>>

\* C23: four samples at [30,20,15,10] with values [0.8,0.7,0.8,0.7] on the
\* edges [0,10,20,30]: the bin that starts at 20 holds only the sample at
\* 30 (mean 0.8, N = 1, m = 2) and the bin [0,10) is empty (N = 0); two
\* samples [0.8,0.7] at [30,20] on the edges [10,20,30]: the bin that
\* starts at 20 has the mean 0.8 and N = 1
C23_ExampleOneSample ==
    /\ FourSamples =>
          /\ grid_ret.N[3] = 1
          /\ grid_ret.q[3] = <<8, 1, 0>>
          /\ grid_args.interpolate => grid_ret.m[3] = 2
          /\ grid_ret.N[1] = 0
    /\ TwoSamples =>
          /\ grid_ret.N[2] = 1
          /\ grid_ret.q[2] = <<8, 1, 0>>

\* the same examples with both samples at 30 and 20 in the last bin:
\* mean 0.75, N = 2 (m = 2), the bin [0,10) empty
C23_ExampleBothSamples ==
    /\ FourSamples =>
          /\ grid_ret.N[3] = 2
          /\ grid_ret.q[3] = <<15, 2, 0>>
          /\ grid_args.interpolate => grid_ret.m[3] = 2
          /\ grid_ret.N[1] = 0
    /\ TwoSamples =>
          /\ grid_ret.N[2] = 2
          /\ grid_ret.q[2] = <<15, 2, 0>>

\* the first example was binned, with the gap fill and its m flags
C23_Witness == FourSamples /\ grid_args.interpolate /\ grid_ret.m # <<>>

\* the second example was binned
C23_TwoSamplesReached == TwoSamples

-----------------------------------------------------------------------------
(* Sonde.remove_N_m_duplicates and Sonde.add_Nm_to_vars (processor.py,     *)
(* lines 1462-1535) on a profile that interpolate_alt gridded.             *)

\* the variables interpolate_alt bins when alt is the dimension (lines
\* 1317-1330), without the time
BinnedVars == {"u", "v", "q", "p", "theta", "lat", "lon", "gpsalt"}

\* the samples of the profile: two in the highest bin, none in the middle
NmAlts == <<25, 22, 5>>

NmArgs(values, fill) ==
    [interp_start |-> 0, interp_stop |-> 31, interp_step |-> 10,
     interpolate |-> fill, max_gap_fill |-> 50,
     alt |-> NmAlts, q |-> values]

\* interim_l3_ds as interpolate_alt leaves it: every variable with its
\* <variable>_N_qc and, after a gap fill, its <variable>_m_qc
GriddedProfile(raw, fill) ==
    LET R(v) == InterpolateAlt(NmArgs(raw[v], fill))
        values == [v \in BinnedVars |-> R(v).q]
        N == [n \in {v \o "_N_qc" : v \in BinnedVars} |->
                 R(CHOOSE v \in BinnedVars : n = v \o "_N_qc").N]
        m == [n \in {v \o "_m_qc" : v \in BinnedVars} |->
                 R(CHOOSE v \in BinnedVars : n = v \o "_m_qc").m]
        coords == [n \in {"alt"} |-> <<5, 15, 25>>]
    IN [data |-> IF fill THEN values @@ N @@ m @@ coords
                 ELSE values @@ N @@ coords,
        ancillary_variables |-> [v \in BinnedVars |-> <<>>]]

\* u, v, lat and lon have a value or NaN at each sample, independently; the
\* other variables have a value at every sample
NmRaw ==
    {[v \in BinnedVars |-> IF v \in {"u", "v", "lat", "lon"} THEN w[v]
                           ELSE [k \in 1..Len(NmAlts) |-> 2]] :
        w \in [{"u", "v", "lat", "lon"} -> [1..Len(NmAlts) -> {NaN, 2}]]}

InitNm ==
    /\ \E raw \in NmRaw, fill \in BOOLEAN :
          interim_l3_ds = GriddedProfile(raw, fill)
    /\ nm_ret = <<>>
    /\ MonoIdle
    /\ BinIdle
    /\ QcIdle
    /\ DataIdle
    /\ PipeIdle
    /\ FitIdle
    /\ CircleIdle
    /\ XyIdle
    /\ GridIdle
    /\ SubstepIdle

nm_vars == {"lat", "u", "p", "q", "theta"}

\* ds.rename({old: new}) and ds.drop_vars(names, errors="ignore")
Rename(d, old, new) ==
    [n \in (DOMAIN d \ {old}) \cup {new} |-> IF n = new THEN d[old] ELSE d[n]]

DropVars(d, names) == [n \in DOMAIN d \ names |-> d[n]]

\* lines 1474-1492: the m flags, when there are any
WithoutMDuplicates(d) ==
    IF "lat_m_qc" \in DOMAIN d
    THEN DropVars(Rename(Rename(d, "lat_m_qc", "gpspos_m_qc"),
                         "u_m_qc", "gps_m_qc"),
                  {v \o "_m_qc" : v \in DOMAIN d \ nm_vars})
    ELSE d

\* lines 1499-1507: the N values
WithoutNDuplicates(d) ==
    Rename(Rename(DropVars(d, {v \o "_N_qc" : v \in DOMAIN d \ nm_vars}),
                  "lat_N_qc", "gpspos_N_qc"),
           "u_N_qc", "gps_N_qc")

\* the three calls of np.testing.assert_array_equal (lines 1475-1484,
\* 1493-1497) pass
AssertionsPass(d) ==
    /\ "lat_m_qc" \in DOMAIN d =>
          /\ d["lat_m_qc"] = d["lon_m_qc"]
          /\ d["u_m_qc"] = d["v_m_qc"]
    /\ d["u_N_qc"] = d["v_N_qc"]

essential_vars == <<"u", "v", "q", "p", "theta", "lat", "lon">>

mN_vars == <<"gps", "gps", "q", "p", "theta", "gpspos", "gpspos">>

\* hx.add_ancillary_var in the loop of lines 1530-1533: the names added to
\* the attribute ancillary_variables of the variable
Ancillary(anc, add_m) ==
    [v \in DOMAIN anc |->
        IF \E k \in DOMAIN essential_vars : essential_vars[k] = v
        THEN LET k == CHOOSE k \in DOMAIN essential_vars : essential_vars[k] = v
             IN anc[v] \o (IF add_m THEN <<mN_vars[k] \o "_m_qc">> ELSE <<>>)
                       \o <<mN_vars[k] \o "_N_qc">>
        ELSE anc[v]]

add_Nm_to_vars ==
    /\ interim_l3_ds # <<>>
    /\ nm_ret = <<>>
    /\ \E add_m \in BOOLEAN :
        LET d == interim_l3_ds.data
        IN IF AssertionsPass(d)
           THEN /\ interim_l3_ds' =
                      [data |-> WithoutNDuplicates(WithoutMDuplicates(d)),
                       ancillary_variables |->
                           Ancillary(interim_l3_ds.ancillary_variables, add_m)]
                /\ nm_ret' = [args |-> d, add_m |-> add_m, raised |-> ""]
           ELSE /\ nm_ret' = [args |-> d, add_m |-> add_m,
                              raised |-> "AssertionError"]
                /\ UNCHANGED interim_l3_ds
    /\ UNCHANGED notNm

NextNm == add_Nm_to_vars

SpecNm == InitNm /\ [][NextNm]_vars

\* ---- properties of add_Nm_to_vars

NmDone == nm_ret # <<>>

\* the shared variable is there, the components' variables are not, and it
\* equals each component's
Shared(shared, a, b, suffix) ==
    LET old == nm_ret.args
        new == interim_l3_ds.data
    IN /\ (shared \o suffix) \in DOMAIN new
       /\ (a \o suffix) \notin DOMAIN new
       /\ (b \o suffix) \notin DOMAIN new
       /\ new[shared \o suffix] = old[a \o suffix]
       /\ new[shared \o suffix] = old[b \o suffix]

\* C22: on every profile gridded by interpolate_alt add_Nm_to_vars
\* completes; gps_N_qc stands for u and v and gpspos_N_qc for lat and lon
\* (with m flags, gps_m_qc and gpspos_m_qc too), no N or m of u, v, lat or
\* lon remains, and the shared variable equals that of each component
C22_SharedNm ==
    NmDone =>
        /\ nm_ret.raised = ""
        /\ Shared("gps", "u", "v", "_N_qc")
        /\ Shared("gpspos", "lat", "lon", "_N_qc")
        /\ "u_m_qc" \in DOMAIN nm_ret.args =>
              /\ Shared("gps", "u", "v", "_m_qc")
              /\ Shared("gpspos", "lat", "lon", "_m_qc")

\* u and v, and lat and lon, are missing at the same samples
SameSensorSamples ==
    LET old == nm_ret.args
    IN /\ old["u_N_qc"] = old["v_N_qc"]
       /\ old["lat_N_qc"] = old["lon_N_qc"]
       /\ "u_m_qc" \in DOMAIN old =>
             /\ old["u_m_qc"] = old["v_m_qc"]
             /\ old["lat_m_qc"] = old["lon_m_qc"]

\* the same on the profiles where the two components of a sensor agree
C22_WhenComponentsAgree ==
    (NmDone /\ SameSensorSamples) =>
        /\ nm_ret.raised = ""
        /\ Shared("gps", "u", "v", "_N_qc")
        /\ Shared("gpspos", "lat", "lon", "_N_qc")
        /\ "u_m_qc" \in DOMAIN nm_ret.args =>
              /\ Shared("gps", "u", "v", "_m_qc")
              /\ Shared("gpspos", "lat", "lon", "_m_qc")

\* the call completes although lat and lon have different N
C22_SilentMismatch ==
    ~ /\ NmDone
      /\ nm_ret.raised = ""
      /\ nm_ret.args["lat_N_qc"] # nm_ret.args["lon_N_qc"]

-----------------------------------------------------------------------------
(* Further properties of QualityControl.                                   *)

SondeFlagWritten ==
    /\ qc_ret.op = "add_sonde_flag_to_ds"
    /\ DOMAIN qc_flags # {}
    /\ BoolKeys = DOMAIN qc_flags

\* C24: add_sonde_flag_to_ds writes 0 when every check passed (GOOD), 1
\* when every check failed (BAD) and 2 for any mixture of passed and failed
\* checks (UGLY)
C24_SondeFlagValues ==
    SondeFlagWritten =>
        qc_ret.val = IF \A key \in DOMAIN qc_flags : qc_flags[key] = PyTrue
                     THEN 0
                     ELSE IF \A key \in DOMAIN qc_flags : qc_flags[key] = PyFalse
                     THEN 1
                     ELSE 2

\* what the code writes on a registry of booleans: 1 when every check
\* passed, 0 when every check failed
C24_OneIsGood ==
    SondeFlagWritten =>
        /\ (\A key \in DOMAIN qc_flags : qc_flags[key] = PyTrue) =>
              qc_ret.val = 1
        /\ (\A key \in DOMAIN qc_flags : qc_flags[key] = PyFalse) =>
              qc_ret.val = 0

\* the flags of the variable in the registry: the keys that begin with the
\* name of the variable and an underscore
FlagsOf(variable) ==
    {key \in DOMAIN qc_flags : StartsWith(key, variable \o str_underscore)}

\* get_byte_array returned a byte for the variable
ByteReturned == qc_ret.op = "get_byte_array" /\ qc_ret.raised = ""

\* the returned byte, masks and meanings are those of the flags K with the
\* values the registry holds for them, in one order
ByteOfFlags(K) ==
    \E order \in Perms(K) :
        /\ qc_ret.val.byte =
              IntSum(DOMAIN order,
                     [i \in DOMAIN order |->
                         Pow2(i - 1) * NpByte(qc_flags[order[i]])])
        /\ qc_ret.val.flag_masks = [i \in DOMAIN order |-> Pow2(i - 1)]
        /\ qc_ret.val.flag_meanings =
              [i \in DOMAIN order |-> AfterUnderscore(order[i])]

\* C28: after any interleaving of check runs with get_byte_array,
\* get_details and add_variable_flags_to_ds, the byte, flag_masks and
\* flag_meanings that get_byte_array returns for a variable are computed
\* from exactly the flags of that variable that are in the registry at the
\* time of the call, with their current values.
C28_ByteFromRegistry ==
    ByteReturned => ByteOfFlags(FlagsOf(qc_ret.args[1]))

\* what the code does: the byte is computed from the flags by variable,
\* whose keys are in the registry but need not be all of them, and whose
\* values are those of the last refresh
C28_ByteFromFlagsByVar ==
    ByteReturned =>
        LET fl == qc_by_var[qc_ret.args[1]].qc_flags
        IN /\ qc_ret.val.byte = QcVal(fl, Len(fl))
           /\ qc_ret.val.flag_masks = [i \in DOMAIN fl |-> Pow2(i - 1)]
           /\ qc_ret.val.flag_meanings =
                 [i \in DOMAIN fl |-> AfterUnderscore(fl[i][1])]
           /\ KeysOf(fl) \subseteq FlagsOf(qc_ret.args[1])

\* and the byte is the registry's when the variable had no flags by variable
\* before the call, which is when get_byte_array refreshes them
C28_CurrentOnFirstCall ==
    [][(/\ QcReady
        /\ ByteReturned'
        /\ Len(qc_by_var[qc_ret'.args[1]].qc_flags) = 0)
          => C28_ByteFromRegistry']_vars

\* get_byte_array returned a byte of one flag for a variable that has two
\* flags in the registry: the second was registered after the first call
C28_StaleByte ==
    /\ ByteReturned
    /\ Len(qc_ret.val.flag_masks) = 1
    /\ Cardinality(FlagsOf(qc_ret.args[1])) = 2

-----------------------------------------------------------------------------
(* get_qc_by_var on registries of variables whose names share an ending.   *)
(* The registry is the one set_qc_variables followed by near_surface_       *)
(* coverage, profile_fullness or both leave; what the checks found is an    *)
(* input.                                                                    *)

str_theta == <<"t", "h", "e", "t", "a">>

\* the lists handed to set_qc_variables
ByVarLists ==
    {<<str_u, str_p>>, <<str_ta, str_theta>>, <<str_alt, str_gpsalt>>}

\* the key of the flag and of the detail a check registers for a variable,
\* and the detail of a passed and of a failed check
ByVarChecks ==
    {[flag |-> str_near_surface_suffix,
      detail |-> str_near_surface_count_suffix,
      passed |-> Q(60), failed |-> Q(10)],
     [flag |-> str_profile_fullness_suffix,
      detail |-> str_profile_fullness_fraction_suffix,
      passed |-> <<1, 1, 0>>, failed |-> <<1, 2, 0>>]}

\* qc_flags and qc_details after the checks `checks` ran on the variables V
\* and passed where `passed` says
Registry(V, checks, passed) ==
    LET Of(key, field) ==
            CHOOSE pair \in V \X checks : pair[1] \o pair[2][field] = key
    IN [qc_flags |->
           [key \in {v \o c.flag : v \in V, c \in checks} |->
               IF passed[Of(key, "flag")] THEN PyTrue ELSE PyFalse],
        qc_details |->
           [key \in {v \o c.detail : v \in V, c \in checks} |->
               IF passed[Of(key, "detail")]
               THEN Of(key, "detail")[2].passed
               ELSE Of(key, "detail")[2].failed]]

InitByVar ==
    /\ qc_vars \in ByVarLists
    /\ \E checks \in SUBSET ByVarChecks \ {{}} :
          \E passed \in [Range(qc_vars) \X checks -> BOOLEAN] :
              LET registry == Registry(Range(qc_vars), checks, passed)
              IN /\ qc_flags = registry.qc_flags
                 /\ qc_details = registry.qc_details
    /\ qc_by_var = [variable \in Range(qc_vars) |-> FreshByVar]
    /\ alt_dim = str_time
    /\ is_floater = "unset"
    /\ has_altitude = FALSE
    /\ qc_ret = NoRet
    /\ DataIdle
    /\ MonoIdle
    /\ BinIdle
    /\ PipeIdle
    /\ FitIdle
    /\ CircleIdle
    /\ XyIdle
    /\ GridIdle
    /\ NmIdle
    /\ SubstepIdle

NextByVar ==
    \/ get_qc_by_var
    \/ get_byte_array
    \/ get_details
    \/ QcNextCall

SpecByVar == InitByVar /\ [][NextByVar]_vars

\* the details of the variable in the registry, by prefix
DetailsOf(variable) ==
    {key \in DOMAIN qc_details :
        StartsWith(key, variable \o str_underscore)}

\* C29: get_qc_by_var assigns to each monitored variable exactly the flags
\* and details whose key has the variable's name as prefix followed by an
\* underscore; for any set of monitored names, including names where one
\* is the ending of another, a flag of one variable never enters another
\* variable's status byte.
C29_OnlyOwnFlags ==
    /\ \A variable \in Range(qc_vars) :
          LET by_var == qc_by_var[variable]
          IN (by_var.qc_flags # <<>> \/ DOMAIN by_var.qc_details # {}) =>
                /\ KeysOf(by_var.qc_flags) = FlagsOf(variable)
                /\ DOMAIN by_var.qc_details = DetailsOf(variable)
    /\ (ByteReturned /\ qc_ret.args[1] \in Range(qc_vars)) =>
          ByteOfFlags(FlagsOf(qc_ret.args[1]))

\* what the code does: a variable gets every flag and detail whose key
\* holds the variable's name and an underscore anywhere, and the byte is
\* computed from those
C29_SubstringFlags ==
    /\ \A variable \in Range(qc_vars) :
          LET by_var == qc_by_var[variable]
          IN (by_var.qc_flags # <<>> \/ DOMAIN by_var.qc_details # {}) =>
                /\ KeysOf(by_var.qc_flags) = Matching(qc_flags, variable)
                /\ DOMAIN by_var.qc_details = Matching(qc_details, variable)
    /\ (ByteReturned /\ qc_ret.args[1] \in Range(qc_vars)) =>
          ByteOfFlags(Matching(qc_flags, qc_ret.args[1]))

\* the byte of ta holds a flag of theta: ta has one flag in the registry and
\* its byte has two
C29_ForeignFlagInByte ==
    /\ ByteReturned
    /\ qc_ret.args[1] = str_ta
    /\ str_theta \in Range(qc_vars)
    /\ Cardinality(FlagsOf(str_ta)) = 1
    /\ Len(qc_ret.val.flag_masks) = 2

\* for u and p, where no key of one variable holds the name of the other,
\* the byte of a variable with two flags is that of its own flags
C29_OwnFlagsOfPressure ==
    /\ ByteReturned
    /\ qc_ret.args[1] = str_p
    /\ Cardinality(FlagsOf(str_p)) = 2
    /\ Len(qc_ret.val.flag_masks) = 2

=============================================================================
